---- MODULE Spec2Model ----
(***************************************************************************)
(* A model of the finance manager's server: the ledger store (MonthlyData, *)
(* IncomeSource, ExpenseCategory), the savings store, the month resolver   *)
(* GET /api/monthly/:month, the CRUD handlers around it and the yearly     *)
(* aggregator GET /api/yearly/:year.                                       *)
(*                                                                         *)
(* Conventions                                                             *)
(*  - A string the code inspects character by character (a month key, a    *)
(*    year) is a tuple of one-character strings.                           *)
(*  - A Decimal(10,2) amount is an integer number of cents.                *)
(*  - Every prisma call is one atomic step on the store; a handler with    *)
(*    several awaits is several steps, and handlers of different requests  *)
(*    interleave between them.  Code that runs before a handler's first    *)
(*    prisma call touches nothing shared and is folded into that call's    *)
(*    step.                                                                *)
(*  - A relation loaded with `include` is returned in primary-key order.   *)
(***************************************************************************)
EXTENDS Integers, Sequences, FiniteSets, TLC

VARIABLES
    monthRows,      \* table MonthlyData: set of [id, month]
    incomeRows,     \* table IncomeSource: set of [id, name, expected, actual, monthlyDataId]
    expenseRows,    \* table ExpenseCategory
    goalRows,       \* table SavingsGoal: set of [id, name, targetAmount, currentAmount]
    userRows,       \* table User: set of [id, username, password]
    seqMonth,       \* last value of MonthlyData's SERIAL id sequence
    seqIncome,      \* last value of IncomeSource's SERIAL id sequence
    seqExpense,     \* last value of ExpenseCategory's SERIAL id sequence
    seqGoal,        \* last value of SavingsGoal's SERIAL id sequence
    req,            \* the requests in flight, one record per request slot
    resp,           \* the last response sent on the monthly and savings routes
    issued,         \* number of requests received so far that took a request slot
    report,         \* body of the last GET /api/yearly/:year response
    sessions        \* the session store: what it holds for each session id

store == <<monthRows, incomeRows, expenseRows, goalRows, userRows>>
seqs == <<seqMonth, seqIncome, seqExpense, seqGoal>>
vars == <<monthRows, incomeRows, expenseRows, goalRows, userRows,
          seqMonth, seqIncome, seqExpense, seqGoal, req, resp, issued, report,
          sessions>>

----------------------------------------------------------------------------
(* Bounds of the model *)

\* request slots: how many requests can be in flight at once
MaxReq == 2
\* how many requests the server receives in one behaviour
MaxRequests == 4
\* how many of them login and change-credentials requests
MaxAuthRequests == 3

Reqs == 1..MaxReq

----------------------------------------------------------------------------
(* Strings *)

Digits == {"0", "1", "2", "3", "4", "5", "6", "7", "8", "9"}

\* UTF-16 code unit of the characters that occur in the inputs
CharCode(c) ==
    CASE c = "-" -> 45
      [] c = "0" -> 48 [] c = "1" -> 49 [] c = "2" -> 50 [] c = "3" -> 51
      [] c = "4" -> 52 [] c = "5" -> 53 [] c = "6" -> 54 [] c = "7" -> 55
      [] c = "8" -> 56 [] c = "9" -> 57
      [] c = "a" -> 97

\* a < b on strings: code unit by code unit, a proper prefix being smaller
RECURSIVE StrLess(_, _)
StrLess(a, b) ==
    IF Len(b) = 0 THEN FALSE
    ELSE IF Len(a) = 0 THEN TRUE
    ELSE IF CharCode(Head(a)) < CharCode(Head(b)) THEN TRUE
    ELSE IF CharCode(Head(a)) > CharCode(Head(b)) THEN FALSE
    ELSE StrLess(Tail(a), Tail(b))

\* the month keys requests carry: three well-formed, two malformed
M2024_12 == <<"2", "0", "2", "4", "-", "1", "2">>
M2025_01 == <<"2", "0", "2", "5", "-", "0", "1">>
M2025_02 == <<"2", "0", "2", "5", "-", "0", "2">>
MShort == <<"2", "0", "2", "5", "-", "1">>
MLong == <<"2", "0", "2", "5", "-", "0", "1", "1">>
MonthInputs == {M2024_12, M2025_01, M2025_02, MShort, MLong}

\* the format check with the pattern's closing anchor left out
MonthFormatUnanchored(month) ==
    /\ Len(month) >= 7
    /\ \A i \in 1..4 : month[i] \in Digits
    /\ month[5] = "-"
    /\ month[6] \in Digits
    /\ month[7] \in Digits

\* /^\d{4}-\d{2}$/.test(month)
MonthFormatOK(month) ==
    /\ Len(month) = 7
    /\ \A i \in 1..4 : month[i] \in Digits
    /\ month[5] = "-"
    /\ month[6] \in Digits
    /\ month[7] \in Digits

----------------------------------------------------------------------------
(* The store: what the prisma calls of the handlers do *)

\* the rows of a set in primary-key order
RECURSIVE ById(_)
ById(rows) ==
    IF rows = {} THEN <<>>
    ELSE LET first == CHOOSE r \in rows : \A o \in rows : r.id <= o.id
         IN <<first>> \o ById(rows \ {first})

\* a lookup that takes every month for the one asked for
FindAnyMonth(month) == monthRows

\* prisma.monthlyData.findUnique({ where: { month } }): the rows found
FindUniqueMonth(month) == {m \in monthRows : m.month = month}

\* include: { expenseCategories: true }
ExpenseCategoriesOf(m) == ById({e \in expenseRows : e.monthlyDataId = m.id})

\* include: { incomeSources: true }
IncomeSourcesOf(m) == ById({i \in incomeRows : i.monthlyDataId = m.id})

\* a search that goes back to the nearest earlier month that has categories
FindFirstPreviousWithCategories(month) ==
    LET earlier == {m \in monthRows : /\ StrLess(m.month, month)
                                      /\ \E e \in expenseRows : e.monthlyDataId = m.id}
    IN {m \in earlier : \A o \in earlier : o.month = m.month \/ StrLess(o.month, m.month)}

\* prisma.monthlyData.findFirst({ where: { month: { lt: month } },
\*                                orderBy: { month: "desc" } }): the rows found
FindFirstPrevious(month) ==
    LET earlier == {m \in monthRows : StrLess(m.month, month)}
    IN {m \in earlier : \A o \in earlier : o.month = m.month \/ StrLess(o.month, m.month)}

\* a table MonthlyData without the unique index
NoUniqueIndex(month) == FALSE

\* the unique index MonthlyData_month_key rejects an insert of this key
MonthKeyTaken(month) == \E m \in monthRows : m.month = month

\* the foreign key without its cascade
NoCascadeIncome(ids) == incomeRows

\* ON DELETE CASCADE of IncomeSource_monthlyDataId_fkey
CascadeIncome(ids) == {i \in incomeRows : i.monthlyDataId \notin ids}

\* the foreign key of the categories without its cascade
NoCascadeExpense(ids) == expenseRows

\* ON DELETE CASCADE of ExpenseCategory_monthlyDataId_fkey
CascadeExpense(ids) == {e \in expenseRows : e.monthlyDataId \notin ids}

----------------------------------------------------------------------------
(* The month resolver, GET /api/monthly/:month *)

\* the defaults with Groceries shown as payable
DefaultsGroceriesPaid == <<
    [name |-> "Rent", budgeted |-> 0, showPaidStatus |-> TRUE],
    [name |-> "Groceries", budgeted |-> 0, showPaidStatus |-> TRUE],
    [name |-> "Car Insurance", budgeted |-> 0, showPaidStatus |-> TRUE],
    [name |-> "Clothes", budgeted |-> 0, showPaidStatus |-> FALSE],
    [name |-> "Other", budgeted |-> 0, showPaidStatus |-> FALSE] >>

DEFAULT_CATEGORIES == <<
    [name |-> "Rent", budgeted |-> 0, showPaidStatus |-> TRUE],
    [name |-> "Groceries", budgeted |-> 0, showPaidStatus |-> FALSE],
    [name |-> "Car Insurance", budgeted |-> 0, showPaidStatus |-> TRUE],
    [name |-> "Clothes", budgeted |-> 0, showPaidStatus |-> FALSE],
    [name |-> "Other", budgeted |-> 0, showPaidStatus |-> FALSE] >>

\* a clone that carries the month's actuals and paid flags over
CloneCategoryWhole(cat) ==
    [name |-> cat.name, budgeted |-> cat.budgeted, actual |-> cat.actual,
     isPaid |-> cat.isPaid, showPaidStatus |-> cat.showPaidStatus]

\* previousMonth.expenseCategories.map(...)
CloneCategory(cat) ==
    [name |-> cat.name, budgeted |-> cat.budgeted, actual |-> 0,
     isPaid |-> FALSE, showPaidStatus |-> cat.showPaidStatus]

\* defaults that start as paid where the paid status is shown
DefaultCategoryPaid(cat) ==
    [name |-> cat.name, budgeted |-> cat.budgeted, actual |-> 0,
     isPaid |-> cat.showPaidStatus, showPaidStatus |-> cat.showPaidStatus]

\* DEFAULT_CATEGORIES.map(...)
DefaultCategory(cat) ==
    [name |-> cat.name, budgeted |-> cat.budgeted, actual |-> 0,
     isPaid |-> FALSE, showPaidStatus |-> cat.showPaidStatus]

\* categoriesToClone, from the result of findFirst (a set: empty for null)
CategoriesToClone(previous) ==
    IF previous # {} /\ Len(ExpenseCategoriesOf(CHOOSE m \in previous : TRUE)) > 0
    THEN LET cats == ExpenseCategoriesOf(CHOOSE m \in previous : TRUE)
         IN [i \in 1..Len(cats) |-> CloneCategory(cats[i])]
    ELSE [i \in 1..Len(DEFAULT_CATEGORIES) |-> DefaultCategory(DEFAULT_CATEGORIES[i])]

\* a nested create whose rows are given to the first month of the table
NestedCreateForFirstMonth(cats, monthId) ==
    {[id |-> seqExpense + i, name |-> cats[i].name, budgeted |-> cats[i].budgeted,
      actual |-> cats[i].actual, isPaid |-> cats[i].isPaid,
      showPaidStatus |-> cats[i].showPaidStatus, monthlyDataId |-> 1]
     : i \in 1..Len(cats)}

\* expenseCategories: { create: categoriesToClone }: the rows inserted for month id
NestedCreate(cats, monthId) ==
    {[id |-> seqExpense + i, name |-> cats[i].name, budgeted |-> cats[i].budgeted,
      actual |-> cats[i].actual, isPaid |-> cats[i].isPaid,
      showPaidStatus |-> cats[i].showPaidStatus, monthlyDataId |-> monthId]
     : i \in 1..Len(cats)}

\* a request slot with no request in it
Idle == [op |-> "idle", pc |-> "idle", month |-> <<>>, body |-> [none |-> TRUE],
         cats |-> <<>>, monthId |-> 0]

\* no response sent yet
NoResponse == [op |-> "none", month |-> <<>>, status |-> 0, error |-> "", thrown |-> ""]

\* a slot can take a new request.  Slots are names for the requests in
\* flight and nothing in the server tells them apart, so a new request takes
\* the first one that is free.
Free(r) ==
    /\ req[r].pc = "idle"
    /\ \A q \in 1..(r - 1) : req[q].pc # "idle"
    /\ issued < MaxRequests

\* res.status(status).json({ error }) or res.json(...) (status 200, error ""),
\* which ends the request of slot r; thrown is what the catch block caught.
\* The month key is kept for the requests on /:month only.
Respond(r, op, month, status, error, thrown) ==
    /\ resp' = [op |-> op, month |-> month, status |-> status, error |-> error,
                thrown |-> thrown]
    /\ req' = [req EXCEPT ![r] = Idle]

\* the request of slot r goes on to its next prisma call
Continue(r, next) ==
    /\ req' = [req EXCEPT ![r] = next]
    /\ UNCHANGED resp

\* the catch block of GET /:month, whatever was thrown
CatchGetMonth(thrown) == [status |-> 500, error |-> "Failed to fetch month data"]

\* the request arrives: the format check, then findUnique
GetMonthBegin(r, month) ==
    /\ Free(r)
    /\ issued' = issued + 1
    /\ IF ~MonthFormatOK(month)
       THEN Respond(r, "getMonth", month, 400, "Invalid month format. Use YYYY-MM", "")
       ELSE IF FindUniqueMonth(month) # {}
       THEN Respond(r, "getMonth", month, 200, "", "")
       ELSE Continue(r, [Idle EXCEPT !.op = "getMonth", !.pc = "findFirst",
                                     !.month = month])
    /\ UNCHANGED <<store, seqs, report, sessions>>

\* findFirst of the previous month, and categoriesToClone computed from it
GetMonthFindFirst(r) ==
    /\ req[r].op = "getMonth" /\ req[r].pc = "findFirst"
    /\ Continue(r, [req[r] EXCEPT !.pc = "create",
                     !.cats = CategoriesToClone(FindFirstPrevious(req[r].month))])
    /\ UNCHANGED <<store, seqs, issued, report, sessions>>

\* categories inserted on their own, outside the month's transaction
ExpenseRowsNoRollback(taken, cats, monthId) == expenseRows \cup NestedCreate(cats, monthId)

\* the table ExpenseCategory after prisma.monthlyData.create with the nested
\* create, one transaction: nothing of it stays when the insert into
\* MonthlyData fails on the unique index
ExpenseRowsAfterCreate(taken, cats, monthId) ==
    IF taken THEN expenseRows ELSE expenseRows \cup NestedCreate(cats, monthId)

\* prisma.monthlyData.create: the insert into MonthlyData draws an id, then
\* fails on the unique index (P2002, caught) or is followed by the inserts of
\* the categories
GetMonthCreate(r) ==
    /\ req[r].op = "getMonth" /\ req[r].pc = "create"
    /\ seqMonth' = seqMonth + 1
    /\ expenseRows' = ExpenseRowsAfterCreate(MonthKeyTaken(req[r].month), req[r].cats,
                                             seqMonth + 1)
    /\ IF MonthKeyTaken(req[r].month)
       THEN /\ Respond(r, "getMonth", req[r].month, CatchGetMonth("P2002").status,
                       CatchGetMonth("P2002").error, "P2002")
            /\ UNCHANGED <<monthRows, seqExpense>>
       ELSE /\ monthRows' = monthRows \cup {[id |-> seqMonth + 1, month |-> req[r].month]}
            /\ seqExpense' = seqExpense + Len(req[r].cats)
            /\ Respond(r, "getMonth", req[r].month, 200, "", "")
    /\ UNCHANGED <<incomeRows, goalRows, userRows, seqIncome, seqGoal, issued, report, sessions>>

----------------------------------------------------------------------------
(* DELETE /api/monthly/:month *)

\* prisma.monthlyData.delete({ where: { month } }) with its cascades, one
\* statement; a month that is not there throws (P2025) into the catch block
DeleteMonth(r, month) ==
    /\ Free(r)
    /\ issued' = issued + 1
    /\ IF FindUniqueMonth(month) = {}
       THEN /\ Respond(r, "deleteMonth", month, 500, "Failed to delete month", "P2025")
            /\ UNCHANGED store
       ELSE LET ids == {m.id : m \in FindUniqueMonth(month)}
            IN /\ monthRows' = {m \in monthRows : m.id \notin ids}
               /\ incomeRows' = CascadeIncome(ids)
               /\ expenseRows' = CascadeExpense(ids)
               /\ Respond(r, "deleteMonth", month, 200, "", "")
               /\ UNCHANGED <<goalRows, userRows>>
    /\ UNCHANGED <<seqs, report, sessions>>

\* GET /api/monthly: findMany of the ids and keys, the response
GetMonths(r) ==
    /\ Free(r)
    /\ issued' = issued + 1
    /\ Respond(r, "getMonths", <<>>, 200, "", "")
    /\ UNCHANGED <<store, seqs, report, sessions>>

----------------------------------------------------------------------------
(* Income and expense rows *)

\* the request bodies clients send; a field that is absent is undefined
IncomeBodies == {[name |-> "Salary", expected |-> 500000, actual |-> 480000]}
ExpenseBodies == {[name |-> "Gym", budgeted |-> 5000]}
ExpensePatches == {[budgeted |-> 120000, actual |-> 118000, isPaid |-> TRUE],
                   [name |-> "Housing", showPaidStatus |-> FALSE]}
GoalBodies == {[name |-> "Car", targetAmount |-> 1000000]}

Has(body, f) == f \in DOMAIN body

\* name || fallback
NameOr(body, fallback) ==
    IF Has(body, "name") /\ body.name # "" THEN body.name ELSE fallback

\* new Decimal(body.f || 0)
DecimalOr0(body, f) == IF Has(body, f) THEN body[f] ELSE 0

\* POST /:month/income: findUnique, 404 when the month is not there
PostIncomeBegin(r, month, body) ==
    /\ Free(r)
    /\ issued' = issued + 1
    /\ IF FindUniqueMonth(month) = {}
       THEN Respond(r, "postIncome", <<>>, 404, "Month not found", "")
       ELSE Continue(r, [Idle EXCEPT !.op = "postIncome", !.pc = "create", !.month = month,
                                     !.body = body,
                                     !.monthId = (CHOOSE m \in FindUniqueMonth(month) : TRUE).id])
    /\ UNCHANGED <<store, seqs, report, sessions>>

\* prisma.incomeSource.create: the row draws an id, then the foreign key
\* IncomeSource_monthlyDataId_fkey is checked (P2003 when the month is gone)
PostIncomeCreate(r) ==
    /\ req[r].op = "postIncome" /\ req[r].pc = "create"
    /\ seqIncome' = seqIncome + 1
    /\ IF \E m \in monthRows : m.id = req[r].monthId
       THEN /\ incomeRows' = incomeRows \cup
                   {[id |-> seqIncome + 1, name |-> NameOr(req[r].body, "New Income"),
                     expected |-> DecimalOr0(req[r].body, "expected"),
                     actual |-> DecimalOr0(req[r].body, "actual"),
                     monthlyDataId |-> req[r].monthId]}
            /\ Respond(r, "postIncome", <<>>, 200, "", "")
       ELSE /\ Respond(r, "postIncome", <<>>, 500, "Failed to add income", "P2003")
            /\ UNCHANGED incomeRows
    /\ UNCHANGED <<monthRows, expenseRows, goalRows, userRows,
                   seqMonth, seqExpense, seqGoal, issued, report, sessions>>

\* POST /:month/expense: findUnique, 404 when the month is not there
PostExpenseBegin(r, month, body) ==
    /\ Free(r)
    /\ issued' = issued + 1
    /\ IF FindUniqueMonth(month) = {}
       THEN Respond(r, "postExpense", <<>>, 404, "Month not found", "")
       ELSE Continue(r, [Idle EXCEPT !.op = "postExpense", !.pc = "create", !.month = month,
                                     !.body = body,
                                     !.monthId = (CHOOSE m \in FindUniqueMonth(month) : TRUE).id])
    /\ UNCHANGED <<store, seqs, report, sessions>>

\* prisma.expenseCategory.create, with its foreign key check
PostExpenseCreate(r) ==
    /\ req[r].op = "postExpense" /\ req[r].pc = "create"
    /\ seqExpense' = seqExpense + 1
    /\ IF \E m \in monthRows : m.id = req[r].monthId
       THEN /\ expenseRows' = expenseRows \cup
                   {[id |-> seqExpense + 1, name |-> NameOr(req[r].body, "New Category"),
                     budgeted |-> DecimalOr0(req[r].body, "budgeted"),
                     actual |-> 0, isPaid |-> FALSE, showPaidStatus |-> FALSE,
                     monthlyDataId |-> req[r].monthId]}
            /\ Respond(r, "postExpense", <<>>, 200, "", "")
       ELSE /\ Respond(r, "postExpense", <<>>, 500, "Failed to add expense", "P2003")
            /\ UNCHANGED expenseRows
    /\ UNCHANGED <<monthRows, incomeRows, goalRows, userRows,
                   seqMonth, seqIncome, seqGoal, issued, report, sessions>>

\* updateData of PATCH /expense/:id applied to a row: only the fields the
\* body holds are written
ApplyExpensePatch(row, body) ==
    [id |-> row.id,
     name |-> IF Has(body, "name") THEN body.name ELSE row.name,
     budgeted |-> IF Has(body, "budgeted") THEN body.budgeted ELSE row.budgeted,
     actual |-> IF Has(body, "actual") THEN body.actual ELSE row.actual,
     isPaid |-> IF Has(body, "isPaid") THEN body.isPaid ELSE row.isPaid,
     showPaidStatus |-> IF Has(body, "showPaidStatus") THEN body.showPaidStatus
                        ELSE row.showPaidStatus,
     monthlyDataId |-> row.monthlyDataId]

\* PATCH /expense/:id: prisma.expenseCategory.update, which throws (P2025)
\* when no row has the id
PatchExpense(r, id, body) ==
    /\ Free(r)
    /\ issued' = issued + 1
    /\ IF \E e \in expenseRows : e.id = id
       THEN /\ expenseRows' = {IF e.id = id THEN ApplyExpensePatch(e, body) ELSE e
                               : e \in expenseRows}
            /\ Respond(r, "patchExpense", <<>>, 200, "", "")
       ELSE /\ Respond(r, "patchExpense", <<>>, 500, "Failed to update expense", "P2025")
            /\ UNCHANGED expenseRows
    /\ UNCHANGED <<monthRows, incomeRows, goalRows, userRows, seqs, report, sessions>>

\* DELETE /expense/:id: prisma.expenseCategory.delete, which throws (P2025)
\* when no row has the id
DeleteExpense(r, id) ==
    /\ Free(r)
    /\ issued' = issued + 1
    /\ IF \E e \in expenseRows : e.id = id
       THEN /\ expenseRows' = {e \in expenseRows : e.id # id}
            /\ Respond(r, "deleteExpense", <<>>, 200, "", "")
       ELSE /\ Respond(r, "deleteExpense", <<>>, 500, "Failed to delete expense", "P2025")
            /\ UNCHANGED expenseRows
    /\ UNCHANGED <<monthRows, incomeRows, goalRows, userRows, seqs, report, sessions>>

\* a PATCH that writes the fields the body leaves out as well, as a create
\* would
ApplyIncomePatchWithDefaults(row, body) ==
    [id |-> row.id,
     name |-> IF Has(body, "name") THEN body.name ELSE "New Income",
     expected |-> IF Has(body, "expected") THEN body.expected ELSE 0,
     actual |-> IF Has(body, "actual") THEN body.actual ELSE 0,
     monthlyDataId |-> row.monthlyDataId]

\* updateData of PATCH /income/:id applied to a row
ApplyIncomePatch(row, body) ==
    [id |-> row.id,
     name |-> IF Has(body, "name") THEN body.name ELSE row.name,
     expected |-> IF Has(body, "expected") THEN body.expected ELSE row.expected,
     actual |-> IF Has(body, "actual") THEN body.actual ELSE row.actual,
     monthlyDataId |-> row.monthlyDataId]

\* PATCH /income/:id: prisma.incomeSource.update, which throws (P2025) when
\* no row has the id
PatchIncome(r, id, body) ==
    /\ Free(r)
    /\ issued' = issued + 1
    /\ IF \E i \in incomeRows : i.id = id
       THEN /\ incomeRows' = {IF i.id = id THEN ApplyIncomePatch(i, body) ELSE i
                              : i \in incomeRows}
            /\ Respond(r, "patchIncome", <<>>, 200, "", "")
       ELSE /\ Respond(r, "patchIncome", <<>>, 500, "Failed to update income", "P2025")
            /\ UNCHANGED incomeRows
    /\ UNCHANGED <<monthRows, expenseRows, goalRows, userRows, seqs, report, sessions>>

\* DELETE /income/:id: prisma.incomeSource.delete
DeleteIncome(r, id) ==
    /\ Free(r)
    /\ issued' = issued + 1
    /\ IF \E i \in incomeRows : i.id = id
       THEN /\ incomeRows' = {i \in incomeRows : i.id # id}
            /\ Respond(r, "deleteIncome", <<>>, 200, "", "")
       ELSE /\ Respond(r, "deleteIncome", <<>>, 500, "Failed to delete income", "P2025")
            /\ UNCHANGED incomeRows
    /\ UNCHANGED <<monthRows, expenseRows, goalRows, userRows, seqs, report, sessions>>

----------------------------------------------------------------------------
(* Savings goals *)

\* POST /api/savings: prisma.savingsGoal.create
PostGoal(r, body) ==
    /\ Free(r)
    /\ issued' = issued + 1
    /\ seqGoal' = seqGoal + 1
    /\ goalRows' = goalRows \cup
           {[id |-> seqGoal + 1, name |-> NameOr(body, "New Goal"),
             targetAmount |-> DecimalOr0(body, "targetAmount"),
             currentAmount |-> DecimalOr0(body, "currentAmount")]}
    /\ Respond(r, "postGoal", <<>>, 200, "", "")
    /\ UNCHANGED <<monthRows, incomeRows, expenseRows, userRows,
                   seqMonth, seqIncome, seqExpense, report, sessions>>

\* updateData of PATCH /api/savings/:id applied to a row
ApplyGoalPatch(row, body) ==
    [id |-> row.id,
     name |-> IF Has(body, "name") THEN body.name ELSE row.name,
     targetAmount |-> IF Has(body, "targetAmount") THEN body.targetAmount
                      ELSE row.targetAmount,
     currentAmount |-> IF Has(body, "currentAmount") THEN body.currentAmount
                       ELSE row.currentAmount]

\* PATCH /api/savings/:id: prisma.savingsGoal.update, which throws (P2025)
\* when no row has the id
PatchGoal(r, id, body) ==
    /\ Free(r)
    /\ issued' = issued + 1
    /\ IF \E g \in goalRows : g.id = id
       THEN /\ goalRows' = {IF g.id = id THEN ApplyGoalPatch(g, body) ELSE g
                            : g \in goalRows}
            /\ Respond(r, "patchGoal", <<>>, 200, "", "")
       ELSE /\ Respond(r, "patchGoal", <<>>, 500, "Failed to update savings goal", "P2025")
            /\ UNCHANGED goalRows
    /\ UNCHANGED <<monthRows, incomeRows, expenseRows, userRows, seqs, report, sessions>>

\* DELETE /api/savings/:id: prisma.savingsGoal.delete
DeleteGoal(r, id) ==
    /\ Free(r)
    /\ issued' = issued + 1
    /\ IF \E g \in goalRows : g.id = id
       THEN /\ goalRows' = {g \in goalRows : g.id # id}
            /\ Respond(r, "deleteGoal", <<>>, 200, "", "")
       ELSE /\ Respond(r, "deleteGoal", <<>>, 500, "Failed to delete savings goal", "P2025")
            /\ UNCHANGED goalRows
    /\ UNCHANGED <<monthRows, incomeRows, expenseRows, userRows, seqs, report, sessions>>

----------------------------------------------------------------------------
(* The aggregator, GET /api/yearly/:year.  The handler adds the amounts as *)
(* JavaScript numbers; here they stay whole numbers of cents, and a        *)
(* quotient n / d is kept as the pair Frac(n, d), d = 0 standing for the   *)
(* Infinity or NaN a division by zero yields.                              *)

Y2024 == <<"2", "0", "2", "4">>
Y2025 == <<"2", "0", "2", "5">>
YBad == <<"2", "0", "a", "5">>
YearInputs == {Y2024, Y2025, YBad}

\* /^\d{4}$/.test(year)
YearFormatOK(year) == Len(year) = 4 /\ \A i \in 1..4 : year[i] \in Digits

Frac(n, d) == [num |-> n, den |-> d]

Max(a, b) == IF a >= b THEN a ELSE b

\* orderBy: { month: "asc" }
RECURSIVE ByMonthAsc(_)
ByMonthAsc(rows) ==
    IF rows = {} THEN <<>>
    ELSE LET first == CHOOSE m \in rows :
                          \A o \in rows : o.month = m.month \/ StrLess(m.month, o.month)
         IN <<first>> \o ByMonthAsc(rows \ {first})

\* findMany({ where: { month: { startsWith: year } }, orderBy: { month: "asc" } })
MonthsOfYear(year) ==
    ByMonthAsc({m \in monthRows :
                   Len(m.month) >= Len(year) /\ SubSeq(m.month, 1, Len(year)) = year})

\* rows.reduce((sum, row) => sum + parseFloat(row[f].toString()), 0)
RECURSIVE SumOf(_, _)
SumOf(rows, f) == IF Len(rows) = 0 THEN 0 ELSE rows[1][f] + SumOf(Tail(rows), f)

\* the item the loop pushes on monthlyBreakdown for one month
BreakdownItem(m) ==
    LET monthExpectedIncome == SumOf(IncomeSourcesOf(m), "expected")
        monthActualIncome == SumOf(IncomeSourcesOf(m), "actual")
        monthBudgeted == SumOf(ExpenseCategoriesOf(m), "budgeted")
        monthActualExpenses == SumOf(ExpenseCategoriesOf(m), "actual")
        effectiveIncome == Max(monthExpectedIncome, monthActualIncome)
    IN [month |-> m.month,
        expectedIncome |-> monthExpectedIncome,
        actualIncome |-> monthActualIncome,
        effectiveIncome |-> effectiveIncome,
        budgeted |-> monthBudgeted,
        actualExpenses |-> monthActualExpenses,
        savings |-> effectiveIncome - monthActualExpenses]

MonthlyBreakdown(months) == [i \in 1..Len(months) |-> BreakdownItem(months[i])]

\* the expected income taken for the effective one
TotalExpectedOnly(totalExpectedIncome, totalActualIncome) == totalExpectedIncome

\* Math.max(totalExpectedIncome, totalActualIncome)
TotalEffectiveIncome(totalExpectedIncome, totalActualIncome) ==
    Max(totalExpectedIncome, totalActualIncome)

\* savings that forget the expenses
TotalSavingsNoExpenses(totalEffectiveIncome, totalActualExpenses) == totalEffectiveIncome

\* totalEffectiveIncome - totalActualExpenses
TotalSavings(totalEffectiveIncome, totalActualExpenses) ==
    totalEffectiveIncome - totalActualExpenses

\* totalEffectiveIncome > 0 ? (totalSavings / totalEffectiveIncome) * 100 : 0
SavingsRate(totalSavings, totalEffectiveIncome) ==
    IF totalEffectiveIncome > 0
    THEN Frac(totalSavings * 100, totalEffectiveIncome)
    ELSE Frac(0, 1)

\* JavaScript's null
Null == [null |-> TRUE]

\* a sort that puts a later element before the earlier ones it ties with
RECURSIVE SortDescTiesReversed(_, _)
SortDescTiesReversed(xs, f) ==
    IF Len(xs) = 0 THEN <<>>
    ELSE LET rest == SortDescTiesReversed(SubSeq(xs, 1, Len(xs) - 1), f)
             x == xs[Len(xs)]
             before == SelectSeq(rest, LAMBDA y : y[f] > x[f])
             after == SelectSeq(rest, LAMBDA y : y[f] <= x[f])
         IN before \o <<x>> \o after

\* [...xs].sort((a, b) => b[f] - a[f]): descending by f, and stable (elements
\* that tie keep the order they had in xs)
RECURSIVE SortDesc(_, _)
SortDesc(xs, f) ==
    IF Len(xs) = 0 THEN <<>>
    ELSE LET rest == SortDesc(SubSeq(xs, 1, Len(xs) - 1), f)
             x == xs[Len(xs)]
             before == SelectSeq(rest, LAMBDA y : y[f] >= x[f])
             after == SelectSeq(rest, LAMBDA y : y[f] < x[f])
         IN before \o <<x>> \o after

\* xs[0] || null
FirstOrNull(xs) == IF Len(xs) > 0 THEN xs[1] ELSE Null

\* xs[xs.length - 1] || null
LastOrNull(xs) == IF Len(xs) > 0 THEN xs[Len(xs)] ELSE Null

\* the property names every object literal inherits from Object.prototype
ObjectPrototypeKeys ==
    {"constructor", "__proto__", "hasOwnProperty", "isPrototypeOf",
     "propertyIsEnumerable", "toLocaleString", "toString", "valueOf",
     "__defineGetter__", "__defineSetter__", "__lookupGetter__", "__lookupSetter__"}

\* categoryTotals is the sequence of its own entries, in insertion order.
\* categoryTotals[name] is truthy: an own entry, or a value inherited from
\* Object.prototype
HasCategoryTotals(categoryTotals, name) ==
    \/ \E i \in 1..Len(categoryTotals) : categoryTotals[i].name = name
    \/ name \in ObjectPrototypeKeys

\* one turn of the loop over month.expenseCategories: the entry is created
\* when the lookup is falsy, then the row is added to what the lookup
\* finds, which for an inherited value is not an entry of categoryTotals
AddToCategoryTotals(categoryTotals, exp) ==
    LET created == IF HasCategoryTotals(categoryTotals, exp.name)
                   THEN categoryTotals
                   ELSE Append(categoryTotals,
                               [name |-> exp.name, budgeted |-> 0, actual |-> 0])
    IN [i \in 1..Len(created) |->
           IF created[i].name = exp.name
           THEN [created[i] EXCEPT !.budgeted = @ + exp.budgeted,
                                   !.actual = @ + exp.actual]
           ELSE created[i]]

\* the expense rows in the order the two loops visit them
RECURSIVE ExpensesInLoopOrder(_)
ExpensesInLoopOrder(months) ==
    IF Len(months) = 0 THEN <<>>
    ELSE ExpenseCategoriesOf(months[1]) \o ExpensesInLoopOrder(Tail(months))

\* categoryTotals after the loops
RECURSIVE CategoryTotals(_)
CategoryTotals(exps) ==
    IF Len(exps) = 0 THEN <<>>
    ELSE AddToCategoryTotals(CategoryTotals(SubSeq(exps, 1, Len(exps) - 1)),
                             exps[Len(exps)])

\* Object.entries(categoryTotals).map(...).sort((a, b) => b.actual - a.actual)
CategoryBreakdown(months) ==
    LET categoryTotals == CategoryTotals(ExpensesInLoopOrder(months))
    IN SortDesc([i \in 1..Len(categoryTotals) |->
                    [name |-> categoryTotals[i].name,
                     budgeted |-> categoryTotals[i].budgeted,
                     actual |-> categoryTotals[i].actual,
                     variance |-> categoryTotals[i].budgeted - categoryTotals[i].actual]],
                "actual")

\* the body of the 200 response
YearlySummary(year) ==
    LET months == MonthsOfYear(year)
        monthlyBreakdown == MonthlyBreakdown(months)
        totalExpectedIncome == SumOf(monthlyBreakdown, "expectedIncome")
        totalActualIncome == SumOf(monthlyBreakdown, "actualIncome")
        totalBudgeted == SumOf(monthlyBreakdown, "budgeted")
        totalActualExpenses == SumOf(monthlyBreakdown, "actualExpenses")
        monthCount == IF Len(months) # 0 THEN Len(months) ELSE 1
        totalEffectiveIncome == TotalEffectiveIncome(totalExpectedIncome, totalActualIncome)
        totalSavings == TotalSavings(totalEffectiveIncome, totalActualExpenses)
        sortedBySavings == SortDesc(monthlyBreakdown, "savings")
        sortedByExpenses == SortDesc(monthlyBreakdown, "actualExpenses")
        categoryBreakdown == CategoryBreakdown(months)
    IN [status |-> 200,
        year |-> year,
        monthCount |-> Len(months),
        totals |-> [expectedIncome |-> totalExpectedIncome,
                    actualIncome |-> totalActualIncome,
                    effectiveIncome |-> totalEffectiveIncome,
                    budgeted |-> totalBudgeted,
                    actualExpenses |-> totalActualExpenses,
                    savings |-> totalSavings],
        averages |-> [monthlyIncome |-> Frac(totalEffectiveIncome, monthCount),
                      monthlyExpenses |-> Frac(totalActualExpenses, monthCount),
                      monthlySavings |-> Frac(totalSavings, monthCount)],
        savingsRate |-> SavingsRate(totalSavings, totalEffectiveIncome),
        monthlyBreakdown |-> monthlyBreakdown,
        categoryBreakdown |-> categoryBreakdown,
        highlights |-> [bestMonth |-> FirstOrNull(sortedBySavings),
                        worstMonth |-> LastOrNull(sortedBySavings),
                        highestSpendingMonth |-> FirstOrNull(sortedByExpenses),
                        topSpendingCategory |-> FirstOrNull(categoryBreakdown)]]

\* GET /api/yearly/:year: the format check, one findMany, the response
GetYearly(year) ==
    /\ report' = IF ~YearFormatOK(year)
                 THEN [status |-> 400, error |-> "Invalid year format. Use YYYY"]
                 ELSE YearlySummary(year)
    /\ UNCHANGED <<store, seqs, req, resp, issued, sessions>>

\* GET /api/yearly: findMany of the month keys, the years among them
GetYears(r) ==
    /\ Free(r)
    /\ issued' = issued + 1
    /\ Respond(r, "getYears", <<>>, 200, "", "")
    /\ UNCHANGED <<store, seqs, report, sessions>>

----------------------------------------------------------------------------
(* Sessions and credentials.  express-session (index.ts: the default       *)
(* memory store, resave false, saveUninitialized false) gives every        *)
(* request its own copy of what the store holds for its session id, and,   *)
(* when the response ends, writes the copy back if the handler changed it. *)
(* A request's copy is taken when it arrives; the handlers read nothing    *)
(* shared between their arrival and their first prisma call, so the two    *)
(* are one step.                                                           *)

\* the session ids (cookies) of two browsers
Sids == {"s1", "s2"}

\* what the store holds for a session id it does not know; a userId is a
\* positive row id, 0 stands for none
NoSession == [userId |-> 0, username |-> ""]

\* JSON values of a request body that the code converts or measures
JString(chars) == [type |-> "string", chars |-> chars]
JNumber(n) == [type |-> "number", n |-> n]

\* the decimal digits of a natural number
RECURSIVE DigitsOf(_)
DigitsOf(n) ==
    LET digit == CHOOSE d \in Digits : CharCode(d) = 48 + (n % 10)
    IN IF n < 10 THEN <<digit>> ELSE Append(DigitsOf(n \div 10), digit)

\* String(v)
StringOf(v) == IF v.type = "string" THEN v.chars ELSE DigitsOf(v.n)

\* v is truthy
Truthy(v) == IF v.type = "string" THEN Len(v.chars) > 0 ELSE v.n # 0

\* body[f] is present and truthy
TruthyField(body, f) == Has(body, f) /\ Truthy(body[f])

\* the passwords and password values of the requests
PwSeed == <<"b", "a", "b", "y", "g", "i", "r", "l", "1", "2", "3">>
PwWrong == <<"l", "e", "t", "m", "e", "i", "n">>
PwNewA == <<"a", "a", "a", "a", "a", "a">>
PwNewB == <<"b", "b", "b", "b", "b", "b", "b">>
PwShort == <<"a", "b", "c", "d", "e">>

\* bcrypt.hash(password, SALT_ROUNDS), an opaque one-way value
Bcrypt(password) == <<"bcrypt", password>>

\* a comparison that accepts every password
BcryptCompareAny(v, hash) == TRUE

\* bcrypt.compare(String(v), hash)
BcryptCompare(v, hash) == Bcrypt(StringOf(v)) = hash

\* the user prisma/seed.ts creates on an empty credential store
SeedUser == [id |-> 1, username |-> "spemily", password |-> Bcrypt(PwSeed)]

\* req.session && req.session.userId
HasUserId(session) == session.userId # 0

\* the session store when a response ends: the request's copy of the
\* session is written back if it is not as it was loaded
SessionsAfterResponse(sid, loaded, session) ==
    IF session = loaded THEN sessions ELSE [sessions EXCEPT ![sid] = session]

\* a response of an auth route to the browser of session id sid, kept
\* with the body of the request it answers
AuthResponse(op, sid, body, status, error, thrown, username) ==
    [op |-> op, month |-> <<>>, status |-> status, error |-> error, thrown |-> thrown,
     sid |-> sid, body |-> body, username |-> username]

\* the response that ends the request of slot r
AuthRespond(r, op, sid, body, status, error, thrown, username) ==
    /\ resp' = AuthResponse(op, sid, body, status, error, thrown, username)
    /\ req' = [req EXCEPT ![r] = Idle]

\* a request slot holding a request of an auth route
AuthSlot(op, pc, sid, body, user) ==
    [op |-> op, pc |-> pc, sid |-> sid, session |-> sessions[sid], body |-> body,
     user |-> user, updateData |-> <<>>]

\* GET /api/auth/me
Me(s) ==
    /\ resp' = [op |-> "me", month |-> <<>>, status |-> 200, error |-> "", thrown |-> "",
                sid |-> s,
                authenticated |-> HasUserId(sessions[s]),
                username |-> IF HasUserId(sessions[s]) THEN sessions[s].username ELSE ""]
    /\ UNCHANGED <<store, seqs, req, issued, report, sessions>>

\* a login that tells an unknown username from a wrong password
UnknownUserSaysSo(found) ==
    IF found THEN [status |-> 401, error |-> "Invalid credentials"]
    ELSE [status |-> 401, error |-> "Unknown user"]

\* the rejection of a login: user not found (found FALSE) or password not
\* valid (found TRUE)
InvalidCredentials(found) == [status |-> 401, error |-> "Invalid credentials"]

\* a slot can take a new request of an auth route
AuthFree(r) == Free(r) /\ issued < MaxAuthRequests

\* POST /api/auth/login: the check of the body, then findUnique by username
LoginBegin(r, s, body) ==
    /\ AuthFree(r)
    /\ issued' = issued + 1
    /\ IF ~(Has(body, "username") /\ body.username # "" /\ TruthyField(body, "password"))
       THEN AuthRespond(r, "login", s, body, 400, "Username and password required", "", "")
       ELSE IF {u \in userRows : u.username = body.username} = {}
       THEN AuthRespond(r, "login", s, body, InvalidCredentials(FALSE).status,
                        InvalidCredentials(FALSE).error, "", "")
       ELSE Continue(r, AuthSlot("login", "compare", s, body,
                                 CHOOSE u \in userRows : u.username = body.username))
    /\ UNCHANGED <<store, seqs, report, sessions>>

\* bcrypt.compare, then the session is set and the response sent
LoginFinish(r) ==
    /\ req[r].op = "login" /\ req[r].pc = "compare"
    /\ IF ~BcryptCompare(req[r].body.password, req[r].user.password)
       THEN /\ AuthRespond(r, "login", req[r].sid, req[r].body, InvalidCredentials(TRUE).status,
                           InvalidCredentials(TRUE).error, "", "")
            /\ UNCHANGED sessions
       ELSE /\ sessions' = SessionsAfterResponse(
                               req[r].sid, req[r].session,
                               [userId |-> req[r].user.id,
                                username |-> req[r].user.username])
            /\ AuthRespond(r, "login", req[r].sid, req[r].body, 200, "", "", req[r].user.username)
    /\ UNCHANGED <<store, seqs, issued, report>>

\* req.session.destroy: the store forgets the session id
DestroySession(s) == [sessions EXCEPT ![s] = NoSession]

\* POST /api/auth/logout
Logout(s) ==
    /\ sessions' = DestroySession(s)
    /\ resp' = AuthResponse("logout", s, <<>>, 200, "", "", "")
    /\ UNCHANGED <<store, seqs, req, issued, report>>

\* newPassword.length < 6: a number has no length, and undefined < 6 is
\* false
LengthBelow6(v) == v.type = "string" /\ Len(v.chars) < 6

\* the unique index on User.username rejects giving the name to row id
UsernameTaken(username, id) == \E u \in userRows : u.username = username /\ u.id # id

\* the check that takes any holder of the name for another user
TakenByAnyone(existing, user) == existing # {}

\* existing && existing.id !== user.id, existing being the rows findUnique
\* found
TakenByOther(existing, user) == \E e \in existing : e.id # user.id

\* updateData once the new password has passed the length check
WithPassword(updateData, body) ==
    IF ~TruthyField(body, "newPassword") THEN updateData
    ELSE IF Has(updateData, "username")
    THEN [username |-> updateData.username,
          password |-> Bcrypt(StringOf(body.newPassword))]
    ELSE [password |-> Bcrypt(StringOf(body.newPassword))]

\* what follows the username check: the length check of the new password,
\* then the hash, and the handler goes on to its update
ChangeCheckPassword(r, slot, updateData) ==
    IF TruthyField(slot.body, "newPassword") /\ LengthBelow6(slot.body.newPassword)
    THEN AuthRespond(r, "changeCredentials", slot.sid, slot.body, 400,
                     "Password must be at least 6 characters", "", "")
    ELSE Continue(r, [slot EXCEPT !.pc = "update",
                                  !.updateData = WithPassword(updateData, slot.body)])

\* POST /api/auth/change-credentials: the checks of the session and of the
\* body, findUnique by id, bcrypt.compare on the row read
ChangeBegin(r, s, body) ==
    /\ AuthFree(r)
    /\ issued' = issued + 1
    /\ IF ~HasUserId(sessions[s])
       THEN AuthRespond(r, "changeCredentials", s, body, 401, "Not authenticated", "", "")
       ELSE IF ~TruthyField(body, "currentPassword")
       THEN AuthRespond(r, "changeCredentials", s, body, 400, "Current password required", "", "")
       ELSE IF ~(Has(body, "newUsername") /\ body.newUsername # "")
               /\ ~TruthyField(body, "newPassword")
       THEN AuthRespond(r, "changeCredentials", s, body, 400,
                        "New username or password required", "", "")
       ELSE IF {u \in userRows : u.id = sessions[s].userId} = {}
       THEN AuthRespond(r, "changeCredentials", s, body, 401, "User not found", "", "")
       ELSE LET user == CHOOSE u \in userRows : u.id = sessions[s].userId
                slot == AuthSlot("changeCredentials", "findName", s, body, user)
            IN IF ~BcryptCompare(body.currentPassword, user.password)
               THEN AuthRespond(r, "changeCredentials", s, body, 401,
                                "Current password is incorrect", "", "")
               ELSE IF Has(body, "newUsername") /\ body.newUsername # ""
               THEN Continue(r, slot)
               ELSE ChangeCheckPassword(r, slot, <<>>)
    /\ UNCHANGED <<store, seqs, report, sessions>>

\* findUnique by the new username, and the checks that follow it
ChangeFindName(r) ==
    /\ req[r].op = "changeCredentials" /\ req[r].pc = "findName"
    /\ IF TakenByOther({u \in userRows : u.username = req[r].body.newUsername},
                       req[r].user)
       THEN AuthRespond(r, "changeCredentials", req[r].sid, req[r].body, 400,
                        "Username already taken", "", "")
       ELSE ChangeCheckPassword(r, req[r], [username |-> req[r].body.newUsername])
    /\ UNCHANGED <<store, seqs, issued, report, sessions>>

\* an update that writes the username and forgets the password
UpdateUsernameOnly(row, updateData) ==
    [row EXCEPT !.username = IF Has(updateData, "username")
                             THEN updateData.username ELSE @]

\* the row after prisma.user.update({ data: updateData })
UpdatedUser(row, updateData) ==
    [row EXCEPT !.username = IF Has(updateData, "username")
                             THEN updateData.username ELSE @,
                !.password = IF Has(updateData, "password")
                             THEN updateData.password ELSE @]

\* prisma.user.update where id is the id of the row read: one statement,
\* which throws into the catch block when the row is gone (P2025) or the
\* username is another row's (P2002)
ChangeUpdate(r) ==
    /\ req[r].op = "changeCredentials" /\ req[r].pc = "update"
    /\ IF {u \in userRows : u.id = req[r].user.id} = {}
       THEN /\ AuthRespond(r, "changeCredentials", req[r].sid, req[r].body, 500,
                           "Internal server error", "P2025", "")
            /\ UNCHANGED userRows
       ELSE IF /\ Has(req[r].updateData, "username")
               /\ UsernameTaken(req[r].updateData.username, req[r].user.id)
       THEN /\ AuthRespond(r, "changeCredentials", req[r].sid, req[r].body, 500,
                           "Internal server error", "P2002", "")
            /\ UNCHANGED userRows
       ELSE LET row == CHOOSE u \in userRows : u.id = req[r].user.id
                updatedUser == UpdatedUser(row, req[r].updateData)
            IN /\ userRows' = (userRows \ {row}) \cup {updatedUser}
               /\ Continue(r, [req[r] EXCEPT !.pc = "respond", !.user = updatedUser])
    /\ UNCHANGED <<monthRows, incomeRows, expenseRows, goalRows, seqs, issued, report,
                   sessions>>

\* after the update: the session takes the new username, the response is
\* sent, and the session is written back if it changed
ChangeRespond(r) ==
    /\ req[r].op = "changeCredentials" /\ req[r].pc = "respond"
    /\ sessions' = SessionsAfterResponse(
                       req[r].sid, req[r].session,
                       IF Has(req[r].updateData, "username")
                       THEN [req[r].session EXCEPT !.username = req[r].user.username]
                       ELSE req[r].session)
    /\ AuthRespond(r, "changeCredentials", req[r].sid, req[r].body, 200, "", "",
                   req[r].user.username)
    /\ UNCHANGED <<store, seqs, issued, report>>

----------------------------------------------------------------------------
(* Routes behind requireAuth *)

\* a gate that lets every request through
RequireAuthAlways(session) == TRUE

\* requireAuth: next() is called
RequireAuth(session) == HasUserId(session)

\* requireAuth: the 401 that ends the request
Unauthenticated(r, s, op, month) ==
    /\ Free(r)
    /\ issued' = issued + 1
    /\ resp' = [op |-> op, month |-> month, status |-> 401,
                error |-> "Authentication required", thrown |-> "", sid |-> s]
    /\ UNCHANGED <<store, seqs, req, report, sessions>>

\* GET /api/savings: findMany, the response
GetGoals(r) ==
    /\ Free(r)
    /\ issued' = issued + 1
    /\ Respond(r, "getGoals", <<>>, 200, "", "")
    /\ UNCHANGED <<store, seqs, report, sessions>>

\* GET /api/savings/:id: findUnique, 404 when no goal has the id
GetGoal(r, id) ==
    /\ Free(r)
    /\ issued' = issued + 1
    /\ IF \E g \in goalRows : g.id = id
       THEN Respond(r, "getGoal", <<>>, 200, "", "")
       ELSE Respond(r, "getGoal", <<>>, 404, "Savings goal not found", "")
    /\ UNCHANGED <<store, seqs, report, sessions>>

\* app.use("/api/monthly", requireAuth, monthlyRoutes), GET /:month
GatedGetMonth(r, s, month) ==
    IF RequireAuth(sessions[s])
    THEN GetMonthBegin(r, month)
    ELSE Unauthenticated(r, s, "getMonth", month)

\* app.use("/api/savings", requireAuth, savingsRoutes), GET /
GatedGetGoals(r, s) ==
    IF RequireAuth(sessions[s])
    THEN GetGoals(r)
    ELSE Unauthenticated(r, s, "getGoals", <<>>)

\* app.use("/api/yearly", requireAuth, yearlyRoutes), GET /:year
GatedGetYearly(r, s, year) ==
    IF RequireAuth(sessions[s])
    THEN GetYearly(year)
    ELSE Unauthenticated(r, s, "getYearly", <<>>)

----------------------------------------------------------------------------
(* The application's own routes, index.ts: what becomes of a request that  *)
(* no router under /api/auth, /api/monthly, /api/savings or /api/yearly    *)
(* answers.  A path is the tuple of its segments.  NODE_ENV is fixed when  *)
(* the process starts, so it is a parameter of the step that a deployment  *)
(* takes.                                                                  *)

\* the files of ../public, the client build
PublicFiles == {<<"index.html">>, <<"assets", "app.js">>}

\* req.path.startsWith("/api")
StartsWithApi(path) == Len(path) > 0 /\ path[1] = "api"

\* express.static(../public): a GET of a file that is there is answered,
\* the directory itself with its index.html; everything else is passed on
ServeStatic(method, path) ==
    IF method = "GET" /\ path \in PublicFiles THEN [status |-> 200, sent |-> "file"]
    ELSE IF method = "GET" /\ path = <<>> THEN [status |-> 200, sent |-> "index.html"]
    ELSE [next |-> TRUE]

\* app.get("*", ...): sendFile for the paths outside /api; for a path under
\* /api the handler returns without a response and without next()
Star(method, path) ==
    IF method # "GET" THEN [next |-> TRUE]
    ELSE IF ~StartsWithApi(path) THEN [status |-> 200, sent |-> "index.html"]
    ELSE [hangs |-> TRUE]

\* app.get("/api/health", ...)
Health(method, path) ==
    IF method = "GET" /\ path = <<"api", "health">>
    THEN [status |-> 200, sent |-> "health"]
    ELSE [next |-> TRUE]

\* what express does when every handler has passed the request on
NotFound == [status |-> 404, sent |-> "Cannot GET"]

\* the handlers in the order index.ts registers them, each tried when the
\* one before it has passed the request on
Dispatched(nodeEnv, method, path) ==
    LET rest == IF "next" \in DOMAIN Health(method, path)
                THEN NotFound ELSE Health(method, path)
    IN IF nodeEnv # "production" THEN rest
       ELSE IF "next" \notin DOMAIN ServeStatic(method, path)
       THEN ServeStatic(method, path)
       ELSE IF "next" \notin DOMAIN Star(method, path)
       THEN Star(method, path)
       ELSE rest

\* a request for the application's own routes arrives
RouteArrive(r, method, path) ==
    /\ Free(r)
    /\ issued' = issued + 1
    /\ Continue(r, [Idle EXCEPT !.op = "route", !.pc = "handlers",
                                !.body = [method |-> method, path |-> path]])
    /\ UNCHANGED <<store, seqs, report, sessions>>

\* the handlers run: one of them sends the response, or the request stays
\* open with no handler left to run
RouteDispatch(r, nodeEnv) ==
    /\ req[r].op = "route" /\ req[r].pc = "handlers"
    /\ LET outcome == Dispatched(nodeEnv, req[r].body.method, req[r].body.path)
       IN IF "hangs" \in DOMAIN outcome
          THEN Continue(r, [req[r] EXCEPT !.pc = "open"])
          ELSE /\ resp' = [op |-> "route", month |-> <<>>, status |-> outcome.status,
                           error |-> "", thrown |-> "", sent |-> outcome.sent,
                           method |-> req[r].body.method, path |-> req[r].body.path]
               /\ req' = [req EXCEPT ![r] = Idle]
    /\ UNCHANGED <<store, seqs, issued, report, sessions>>

----------------------------------------------------------------------------
(* The ledger specification: requests to the monthly and savings routes,   *)
(* interleaved, on a store that starts empty but for the seeded user       *)

ValidMonthInputs == {M2024_12, M2025_01, M2025_02}

\* the expense ids PATCH requests name: the first rows of the first two
\* months created (ids no row has until then)
ExpenseIdInputs == {1, 6}

NoReport == [status |-> 0]

Init ==
    /\ monthRows = {}
    /\ incomeRows = {}
    /\ expenseRows = {}
    /\ goalRows = {}
    /\ userRows = {SeedUser}
    /\ seqMonth = 0
    /\ seqIncome = 0
    /\ seqExpense = 0
    /\ seqGoal = 0
    /\ req = [r \in Reqs |-> Idle]
    /\ resp = NoResponse
    /\ issued = 0
    /\ report = NoReport
    /\ sessions = [s \in Sids |-> NoSession]

Next ==
    \/ \E r \in Reqs, month \in MonthInputs : GetMonthBegin(r, month)
    \/ \E r \in Reqs : GetMonthFindFirst(r)
    \/ \E r \in Reqs : GetMonthCreate(r)
    \/ \E r \in Reqs, month \in ValidMonthInputs : DeleteMonth(r, month)
    \/ \E r \in Reqs, month \in ValidMonthInputs, body \in IncomeBodies :
           PostIncomeBegin(r, month, body)
    \/ \E r \in Reqs : PostIncomeCreate(r)
    \/ \E r \in Reqs, month \in ValidMonthInputs, body \in ExpenseBodies :
           PostExpenseBegin(r, month, body)
    \/ \E r \in Reqs : PostExpenseCreate(r)
    \/ \E r \in Reqs, id \in ExpenseIdInputs, body \in ExpensePatches :
           PatchExpense(r, id, body)
    \/ \E r \in Reqs, body \in GoalBodies : PostGoal(r, body)

Spec == Init /\ [][Next]_vars

----------------------------------------------------------------------------
(* The rows specification: creates, PATCHes and DELETEs of income rows,    *)
(* expense rows and savings goals, interleaved, on a store in which        *)
(* 2025-01 has been read (id 1, the default categories), Rent has been     *)
(* patched, a salary posted and a goal created and patched.  2025-02 has   *)
(* not been read, and no row has the id 7.                                 *)

RowsMonthInputs == {M2025_01, M2025_02}

RowsIdInputs == {1, 7}

\* the bodies of the requests: amounts are the numbers the client sends, in
\* cents, and nothing keeps a client from sending one below zero
RowsIncomeBodies == {[name |-> "Refund", expected |-> -2500]}
RowsExpenseBodies == {[name |-> "Gym", budgeted |-> 5000]}
RowsGoalBodies == {[name |-> "Trip", targetAmount |-> 200000]}
RowsIncomePatches == {[actual |-> 490000], [name |-> "Wages", expected |-> -100]}
RowsExpensePatches == {[actual |-> -300], [name |-> "Housing", showPaidStatus |-> FALSE]}
RowsGoalPatches == {[currentAmount |-> 300000], [name |-> "Van", targetAmount |-> -1]}

InitRows ==
    /\ monthRows = {[id |-> 1, month |-> M2025_01]}
    /\ incomeRows = {[id |-> 1, name |-> "Salary", expected |-> 500000,
                      actual |-> 480000, monthlyDataId |-> 1]}
    /\ expenseRows =
           {IF e.id = 1
            THEN ApplyExpensePatch(e, [budgeted |-> 120000, actual |-> 118000,
                                       isPaid |-> TRUE])
            ELSE e
            : e \in {[id |-> i, name |-> DEFAULT_CATEGORIES[i].name,
                      budgeted |-> DEFAULT_CATEGORIES[i].budgeted, actual |-> 0,
                      isPaid |-> FALSE,
                      showPaidStatus |-> DEFAULT_CATEGORIES[i].showPaidStatus,
                      monthlyDataId |-> 1] : i \in 1..Len(DEFAULT_CATEGORIES)}}
    /\ goalRows = {[id |-> 1, name |-> "Car", targetAmount |-> 1000000,
                    currentAmount |-> 250000]}
    /\ userRows = {SeedUser}
    /\ seqMonth = 1
    /\ seqIncome = 1
    /\ seqExpense = Len(DEFAULT_CATEGORIES)
    /\ seqGoal = 1
    /\ req = [r \in Reqs |-> Idle]
    /\ resp = NoResponse
    /\ issued = 0
    /\ report = NoReport
    /\ sessions = [s \in Sids |-> NoSession]

NextRows ==
    \/ \E r \in Reqs, month \in RowsMonthInputs : DeleteMonth(r, month)
    \/ \E r \in Reqs, month \in RowsMonthInputs, body \in RowsIncomeBodies :
           PostIncomeBegin(r, month, body)
    \/ \E r \in Reqs : PostIncomeCreate(r)
    \/ \E r \in Reqs, id \in RowsIdInputs, body \in RowsIncomePatches :
           PatchIncome(r, id, body)
    \/ \E r \in Reqs, id \in RowsIdInputs : DeleteIncome(r, id)
    \/ \E r \in Reqs, month \in RowsMonthInputs, body \in RowsExpenseBodies :
           PostExpenseBegin(r, month, body)
    \/ \E r \in Reqs : PostExpenseCreate(r)
    \/ \E r \in Reqs, id \in RowsIdInputs, body \in RowsExpensePatches :
           PatchExpense(r, id, body)
    \/ \E r \in Reqs, id \in RowsIdInputs : DeleteExpense(r, id)
    \/ \E r \in Reqs, body \in RowsGoalBodies : PostGoal(r, body)
    \/ \E r \in Reqs, id \in RowsIdInputs, body \in RowsGoalPatches :
           PatchGoal(r, id, body)
    \/ \E r \in Reqs, id \in RowsIdInputs : DeleteGoal(r, id)

SpecRows == InitRows /\ [][NextRows]_vars

----------------------------------------------------------------------------
(* The routing specifications: requests for the application's own routes   *)
(* in a production deployment (the Dockerfile sets NODE_ENV=production)    *)
(* and in development.  Express runs the handlers of a request as soon as  *)
(* it has arrived, which is the fairness of the dispatch step.             *)

RouteMethods == {"GET", "POST"}

\* /api/health, a path under /api that no route has, a page of the client,
\* the root and a file of the client build
RoutePaths == {<<"api", "health">>, <<"api", "missing">>, <<"dashboard">>, <<>>,
               <<"assets", "app.js">>}

NextProduction ==
    \/ \E r \in Reqs, method \in RouteMethods, path \in RoutePaths :
           RouteArrive(r, method, path)
    \/ \E r \in Reqs : RouteDispatch(r, "production")

SpecProduction ==
    /\ Init
    /\ [][NextProduction]_vars
    /\ \A r \in Reqs : WF_vars(RouteDispatch(r, "production"))

NextDevelopment ==
    \/ \E r \in Reqs, method \in RouteMethods, path \in RoutePaths :
           RouteArrive(r, method, path)
    \/ \E r \in Reqs : RouteDispatch(r, "development")

SpecDevelopment ==
    /\ Init
    /\ [][NextDevelopment]_vars
    /\ \A r \in Reqs : WF_vars(RouteDispatch(r, "development"))

----------------------------------------------------------------------------
(* The seed specification: the seed script, logins and GET /api/auth/me,   *)
(* on a User table that starts empty                                       *)

\* the password of the README's default credentials
PwAdmin == <<"a", "d", "m", "i", "n">>

\* prisma/seed.ts main: findFirst, and a user is created only when the table
\* has none
Seed ==
    /\ userRows = {}
    /\ userRows' = {SeedUser}
    /\ UNCHANGED <<monthRows, incomeRows, expenseRows, goalRows, seqs, req, resp, issued,
                   report, sessions>>

InitEmpty ==
    /\ monthRows = {}
    /\ incomeRows = {}
    /\ expenseRows = {}
    /\ goalRows = {}
    /\ userRows = {}
    /\ seqMonth = 0
    /\ seqIncome = 0
    /\ seqExpense = 0
    /\ seqGoal = 0
    /\ req = [r \in Reqs |-> Idle]
    /\ resp = NoResponse
    /\ issued = 0
    /\ report = NoReport
    /\ sessions = [s \in Sids |-> NoSession]

\* the credentials of the README and those of the seed script
SeedLoginBodies ==
    {[username |-> "admin", password |-> JString(PwAdmin)],
     [username |-> "spemily", password |-> JString(PwSeed)]}

NextSeed ==
    \/ Seed
    \/ \E s \in Sids : Me(s)
    \/ \E r \in Reqs, s \in Sids, body \in SeedLoginBodies : LoginBegin(r, s, body)
    \/ \E r \in Reqs : LoginFinish(r)

SpecSeed == InitEmpty /\ [][NextSeed]_vars

----------------------------------------------------------------------------
(* The re-creation specification: DELETE and GET of 2025-01 and 2025-02,   *)
(* interleaved, on a store in which 2024-12, 2025-01 and 2025-02 were      *)
(* first read in that order (ids 1, 2, 3; categories 1-5, 6-10, 11-15),    *)
(* Rent and Groceries of 2024-12 and of 2025-02 were patched and their     *)
(* other categories deleted, every category of 2025-01 was deleted, and a  *)
(* salary was posted to 2025-02.                                           *)

RecreateMonthInputs == {M2025_01, M2025_02}

InitRecreate ==
    /\ monthRows = {[id |-> 1, month |-> M2024_12], [id |-> 2, month |-> M2025_01],
                    [id |-> 3, month |-> M2025_02]}
    /\ incomeRows = {[id |-> 1, name |-> "Salary", expected |-> 500000,
                      actual |-> 480000, monthlyDataId |-> 3]}
    /\ expenseRows =
           {[id |-> 1, name |-> "Rent", budgeted |-> 120000, actual |-> 118000,
             isPaid |-> TRUE, showPaidStatus |-> TRUE, monthlyDataId |-> 1],
            [id |-> 2, name |-> "Groceries", budgeted |-> 40000, actual |-> 35000,
             isPaid |-> FALSE, showPaidStatus |-> FALSE, monthlyDataId |-> 1],
            [id |-> 11, name |-> "Rent", budgeted |-> 130000, actual |-> 125000,
             isPaid |-> TRUE, showPaidStatus |-> TRUE, monthlyDataId |-> 3],
            [id |-> 12, name |-> "Groceries", budgeted |-> 45000, actual |-> 100,
             isPaid |-> FALSE, showPaidStatus |-> FALSE, monthlyDataId |-> 3]}
    /\ goalRows = {}
    /\ userRows = {SeedUser}
    /\ seqMonth = 3
    /\ seqIncome = 1
    /\ seqExpense = 3 * Len(DEFAULT_CATEGORIES)
    /\ seqGoal = 0
    /\ req = [r \in Reqs |-> Idle]
    /\ resp = NoResponse
    /\ issued = 0
    /\ report = NoReport
    /\ sessions = [s \in Sids |-> NoSession]

NextRecreate ==
    \/ \E r \in Reqs, month \in RecreateMonthInputs : GetMonthBegin(r, month)
    \/ \E r \in Reqs : GetMonthFindFirst(r)
    \/ \E r \in Reqs : GetMonthCreate(r)
    \/ \E r \in Reqs, month \in RecreateMonthInputs : DeleteMonth(r, month)

SpecRecreate == InitRecreate /\ [][NextRecreate]_vars

----------------------------------------------------------------------------
(* The reads specification: every GET of the API, interleaved, on the      *)
(* store of the rows specification (2025-01 with its rows and one goal;    *)
(* 2025-02 not read yet)                                                   *)

NextReads ==
    \/ \E r \in Reqs : GetMonths(r)
    \/ \E r \in Reqs, month \in {M2025_01, M2025_02, MShort} : GetMonthBegin(r, month)
    \/ \E r \in Reqs : GetMonthFindFirst(r)
    \/ \E r \in Reqs : GetMonthCreate(r)
    \/ \E r \in Reqs : GetYears(r)
    \/ \E year \in YearInputs : GetYearly(year)
    \/ \E r \in Reqs : GetGoals(r)
    \/ \E r \in Reqs, id \in RowsIdInputs : GetGoal(r, id)
    \/ \E s \in Sids : Me(s)

SpecReads == InitRows /\ [][NextReads]_vars

----------------------------------------------------------------------------
(* The session specification: the auth routes and one route behind each    *)
(* requireAuth gate, from two browsers, on the store as seeded.            *)

\* the bodies of POST /api/auth/login: right, wrong password, unknown user
LoginBodies ==
    {[username |-> "spemily", password |-> JString(PwSeed)],
     [username |-> "spemily", password |-> JString(PwWrong)],
     [username |-> "nobody", password |-> JString(PwSeed)]}

\* the bodies of POST /api/auth/change-credentials
ChangeBodies ==
    {[currentPassword |-> JString(PwSeed), newUsername |-> "alice",
      newPassword |-> JString(PwNewA)],
     [currentPassword |-> JString(PwSeed), newPassword |-> JString(PwNewB)],
     [currentPassword |-> JString(PwWrong), newUsername |-> "alice",
      newPassword |-> JString(PwNewA)],
     [currentPassword |-> JString(PwSeed), newUsername |-> "alice",
      newPassword |-> JString(PwShort)],
     [currentPassword |-> JString(PwSeed), newPassword |-> JNumber(12345)],
     [currentPassword |-> JString(PwSeed)],
     [newUsername |-> "alice"]}

NextAuth ==
    \/ \E s \in Sids : Me(s)
    \/ \E r \in Reqs, s \in Sids, body \in LoginBodies : LoginBegin(r, s, body)
    \/ \E r \in Reqs : LoginFinish(r)
    \/ \E s \in Sids : Logout(s)
    \/ \E r \in Reqs, s \in Sids, body \in ChangeBodies : ChangeBegin(r, s, body)
    \/ \E r \in Reqs : ChangeFindName(r)
    \/ \E r \in Reqs : ChangeUpdate(r)
    \/ \E r \in Reqs : ChangeRespond(r)

SpecAuth == Init /\ [][NextAuth]_vars

----------------------------------------------------------------------------
(* The gate specification: one route behind each requireAuth gate, and     *)
(* change-credentials, from two browsers that log in and out.              *)

\* the right credentials
GateLoginBodies == {[username |-> "spemily", password |-> JString(PwSeed)]}

\* a change of the password
GateChangeBodies == {[currentPassword |-> JString(PwSeed), newPassword |-> JString(PwNewB)]}

NextGate ==
    \/ \E r \in Reqs, s \in Sids, body \in GateLoginBodies : LoginBegin(r, s, body)
    \/ \E r \in Reqs : LoginFinish(r)
    \/ \E s \in Sids : Logout(s)
    \/ \E r \in Reqs, s \in Sids, body \in GateChangeBodies : ChangeBegin(r, s, body)
    \/ \E r \in Reqs : ChangeUpdate(r)
    \/ \E r \in Reqs : ChangeRespond(r)
    \/ \E r \in Reqs, s \in Sids : GatedGetMonth(r, s, M2025_01)
    \/ \E r \in Reqs : GetMonthFindFirst(r)
    \/ \E r \in Reqs : GetMonthCreate(r)
    \/ \E r \in Reqs, s \in Sids : GatedGetGoals(r, s)
    \/ \E r \in Reqs, s \in Sids : GatedGetYearly(r, s, Y2025)

SpecGate == Init /\ [][NextGate]_vars

----------------------------------------------------------------------------
(* Two users changing their credentials.  No route creates a user and the
   seed creates one only in an empty table, so the second row is one put
   into the User table directly; each user has logged in on a session. *)

\* a second row of the User table
PartnerUser == [id |-> 2, username |-> "partner", password |-> Bcrypt(PwSeed)]

\* the session login leaves for a user
SessionOf(user) == [userId |-> user.id, username |-> user.username]

InitUsers ==
    /\ monthRows = {}
    /\ incomeRows = {}
    /\ expenseRows = {}
    /\ goalRows = {}
    /\ userRows = {SeedUser, PartnerUser}
    /\ seqMonth = 0
    /\ seqIncome = 0
    /\ seqExpense = 0
    /\ seqGoal = 0
    /\ req = [r \in Reqs |-> Idle]
    /\ resp = NoResponse
    /\ issued = 0
    /\ report = NoReport
    /\ sessions = [s \in Sids |-> IF s = "s1" THEN SessionOf(SeedUser)
                                              ELSE SessionOf(PartnerUser)]

\* bodies of POST /api/auth/change-credentials: a new name and password, the
\* name of the second user, a wrong current password, a short new password,
\* nothing to change
UsersChangeBodies ==
    {[currentPassword |-> JString(PwSeed), newUsername |-> "alice",
      newPassword |-> JString(PwNewA)],
     [currentPassword |-> JString(PwSeed), newUsername |-> "partner"],
     [currentPassword |-> JString(PwWrong), newUsername |-> "alice",
      newPassword |-> JString(PwNewA)],
     [currentPassword |-> JString(PwSeed), newUsername |-> "alice",
      newPassword |-> JString(PwShort)],
     [currentPassword |-> JString(PwSeed)]}

NextUsers ==
    \/ \E r \in Reqs, s \in Sids, body \in UsersChangeBodies : ChangeBegin(r, s, body)
    \/ \E r \in Reqs : ChangeFindName(r)
    \/ \E r \in Reqs : ChangeUpdate(r)
    \/ \E r \in Reqs : ChangeRespond(r)

SpecUsers == InitUsers /\ [][NextUsers]_vars

----------------------------------------------------------------------------
(* The aggregator's specification: GET /api/yearly/:year on the ledgers a  *)
(* year can hold.  The store is one the handlers leave behind: the months  *)
(* 2025-02, 2025-01 and 2024-12 were first read in that order (ids 1, 2,   *)
(* 3, each with the default categories), some were deleted again, all      *)
(* categories but Rent and Groceries were deleted, the kept ones patched,  *)
(* and income rows posted.                                                 *)

\* income rows a month of 2025 holds at most
MaxIncomeRows == 2

SeqsUpTo(S, n) == UNION {[1..k -> S] : k \in 0..n}

\* the (expected, actual) an income row can hold, in cents; the handlers
\* store the number they are given, a negative one too
IncomeDraws == {[expected |-> 300, actual |-> 0],
                [expected |-> 0, actual |-> 300],
                [expected |-> -5, actual |-> -5]}

\* the expense rows a month can hold
ExpenseDraws == {[name |-> "Rent", slot |-> 1, budgeted |-> 120, actual |-> 118,
                  isPaid |-> TRUE, showPaidStatus |-> TRUE],
                 [name |-> "Groceries", slot |-> 2, budgeted |-> 40, actual |-> 0,
                  isPaid |-> FALSE, showPaidStatus |-> FALSE]}

\* the id each month got when it was created
YearlyMonthId(month) ==
    CASE month = M2025_02 -> 1 [] month = M2025_01 -> 2 [] month = M2024_12 -> 3

YearlyIncomeRows(month, draws) ==
    {[id |-> (YearlyMonthId(month) - 1) * MaxIncomeRows + j, name |-> "Salary",
      expected |-> draws[j].expected, actual |-> draws[j].actual,
      monthlyDataId |-> YearlyMonthId(month)] : j \in 1..Len(draws)}

YearlyExpenseRows(month, draws) ==
    {[id |-> (YearlyMonthId(month) - 1) * Len(DEFAULT_CATEGORIES) + d.slot,
      name |-> d.name, budgeted |-> d.budgeted, actual |-> d.actual, isPaid |-> d.isPaid,
      showPaidStatus |-> d.showPaidStatus, monthlyDataId |-> YearlyMonthId(month)]
     : d \in draws}

InitYearly ==
    \E present \in SUBSET ValidMonthInputs :
    \E inc \in [ValidMonthInputs -> SeqsUpTo(IncomeDraws, MaxIncomeRows)] :
    \E exp \in [ValidMonthInputs -> SUBSET ExpenseDraws] :
        /\ \A m \in ValidMonthInputs \ present : inc[m] = <<>> /\ exp[m] = {}
        /\ M2024_12 \in present =>
               /\ inc[M2024_12] = <<[expected |-> 300, actual |-> 0]>>
               /\ exp[M2024_12] = ExpenseDraws
        /\ monthRows = {[id |-> YearlyMonthId(m), month |-> m] : m \in present}
        /\ incomeRows = UNION {YearlyIncomeRows(m, inc[m]) : m \in present}
        /\ expenseRows = UNION {YearlyExpenseRows(m, exp[m]) : m \in present}
        /\ goalRows = {}
        /\ userRows = {SeedUser}
        /\ seqMonth = Cardinality(ValidMonthInputs)
        /\ seqIncome = Cardinality(ValidMonthInputs) * MaxIncomeRows
        /\ seqExpense = Cardinality(ValidMonthInputs) * Len(DEFAULT_CATEGORIES)
        /\ seqGoal = 0
        /\ req = [r \in Reqs |-> Idle]
        /\ resp = NoResponse
        /\ issued = 0
        /\ report = NoReport
        /\ sessions = [s \in Sids |-> NoSession]

NextYearly == \E year \in YearInputs : GetYearly(year)

SpecYearly == InitYearly /\ [][NextYearly]_vars

----------------------------------------------------------------------------
(* The aggregator on the expense categories a year can hold.  A category's *)
(* name is whatever text a POST or PATCH of an expense gave it, and two    *)
(* rows of a month may carry the same name.                                *)

\* the expense rows a month can hold: the two kept defaults, a second row
\* named Rent, and a row whose name every JavaScript object inherits
CategoryDraws ==
    ExpenseDraws \cup
    {[name |-> "Rent", slot |-> 3, budgeted |-> 10, actual |-> 7,
      isPaid |-> FALSE, showPaidStatus |-> FALSE],
     [name |-> "constructor", slot |-> 4, budgeted |-> 5, actual |-> 5,
      isPaid |-> FALSE, showPaidStatus |-> FALSE]}

InitCategories ==
    \E present \in SUBSET ValidMonthInputs :
    \E exp \in [ValidMonthInputs -> SUBSET CategoryDraws] :
        /\ \A m \in ValidMonthInputs \ present : exp[m] = {}
        /\ monthRows = {[id |-> YearlyMonthId(m), month |-> m] : m \in present}
        /\ incomeRows = {}
        /\ expenseRows = UNION {YearlyExpenseRows(m, exp[m]) : m \in present}
        /\ goalRows = {}
        /\ userRows = {SeedUser}
        /\ seqMonth = Cardinality(ValidMonthInputs)
        /\ seqIncome = 0
        /\ seqExpense = Cardinality(ValidMonthInputs) * Len(DEFAULT_CATEGORIES)
        /\ seqGoal = 0
        /\ req = [r \in Reqs |-> Idle]
        /\ resp = NoResponse
        /\ issued = 0
        /\ report = NoReport
        /\ sessions = [s \in Sids |-> NoSession]

SpecCategories == InitCategories /\ [][NextYearly]_vars

----------------------------------------------------------------------------
(* Properties of the ledger, checked under Spec *)

ExpensesOfId(id, rows) == {e \in rows : e.monthlyDataId = id}

IncomesOfId(id, rows) == {i \in rows : i.monthlyDataId = id}

\* the months of the store strictly before a key with no month in between
NearestEarlier(month) ==
    {p \in monthRows : /\ StrLess(p.month, month)
                       /\ \A o \in monthRows :
                              StrLess(o.month, month) => ~StrLess(p.month, o.month)}

\* what a category looks like, its id and owner left out
Shape(e) == [name |-> e.name, budgeted |-> e.budgeted, actual |-> e.actual,
             isPaid |-> e.isPaid, showPaidStatus |-> e.showPaidStatus]

\* the step that creates a month gives it the categories the request
\* prepared, in their order, and nothing else
CreatedAsPrepared(r) ==
    \E m \in monthRows' \ monthRows :
        /\ monthRows' = monthRows \cup {m}
        /\ m.month = req[r].month
        /\ expenseRows' \ expenseRows = ExpensesOfId(m.id, expenseRows')
        /\ expenseRows \subseteq expenseRows'
        /\ LET new == ById(ExpensesOfId(m.id, expenseRows'))
           IN /\ Len(new) = Len(req[r].cats)
              /\ \A i \in 1..Len(new) : Shape(new[i]) = req[r].cats[i]
        /\ IncomesOfId(m.id, incomeRows') = {}
        /\ incomeRows' = incomeRows

FiveDefaults == {
    [name |-> "Rent", budgeted |-> 0, actual |-> 0, isPaid |-> FALSE,
     showPaidStatus |-> TRUE],
    [name |-> "Groceries", budgeted |-> 0, actual |-> 0, isPaid |-> FALSE,
     showPaidStatus |-> FALSE],
    [name |-> "Car Insurance", budgeted |-> 0, actual |-> 0, isPaid |-> FALSE,
     showPaidStatus |-> TRUE],
    [name |-> "Clothes", budgeted |-> 0, actual |-> 0, isPaid |-> FALSE,
     showPaidStatus |-> FALSE],
    [name |-> "Other", budgeted |-> 0, actual |-> 0, isPaid |-> FALSE,
     showPaidStatus |-> FALSE]}

\* C2: a GET of an absent month that, looking for the previous month, finds no
\* month with a smaller key (an empty store, or later months only) prepares
\* the five categories Rent, Groceries, Car Insurance,
\* Clothes and Other, budgeted 0, actual 0, not paid, showPaidStatus true for
\* Rent and Car Insurance only, and the month it creates holds exactly these
\* five and no income source.
C2_DefaultsWithoutEarlierMonth ==
    [][\A r \in Reqs :
         /\ (GetMonthFindFirst(r) /\ \A o \in monthRows : ~StrLess(o.month, req[r].month)) =>
                /\ Len(req'[r].cats) = 5
                /\ {req'[r].cats[i] : i \in 1..5} = FiveDefaults
         /\ (GetMonthCreate(r) /\ resp'.status = 200 /\ Len(req[r].cats) = 5
                /\ {req[r].cats[i] : i \in 1..5} = FiveDefaults) =>
                \E m \in monthRows' \ monthRows :
                    /\ m.month = req[r].month
                    /\ Cardinality(ExpensesOfId(m.id, expenseRows')) = 5
                    /\ {Shape(e) : e \in ExpensesOfId(m.id, expenseRows')} = FiveDefaults
                    /\ IncomesOfId(m.id, incomeRows') = {}
      ]_vars

\* a month was created with the five defaults although a later month, itself
\* holding a budgeted category, was already there
C2_Witness ==
    \E m \in monthRows, l \in monthRows :
        /\ resp.op = "getMonth" /\ resp.status = 200 /\ resp.month = m.month
        /\ StrLess(m.month, l.month) /\ l.id < m.id
        /\ \A o \in monthRows : ~StrLess(o.month, m.month)
        /\ \E e \in ExpensesOfId(l.id, expenseRows) : e.budgeted > 0
        /\ Cardinality(ExpensesOfId(m.id, expenseRows)) = 5
        /\ {Shape(e) : e \in ExpensesOfId(m.id, expenseRows)} = FiveDefaults
        /\ IncomesOfId(m.id, incomeRows) = {}

\* the keys of the form YYYY-MM: seven characters, digits but for the hyphen
\* in fifth place
WellFormedKey(month) ==
    /\ Len(month) = 7
    /\ month[5] = "-"
    /\ \A i \in {1, 2, 3, 4, 6, 7} :
           month[i] \in {"0", "1", "2", "3", "4", "5", "6", "7", "8", "9"}

\* C3: a GET /api/monthly/:month with a key that is not of the form YYYY-MM
\* is answered 400 at once, with no row created: the tables and their id
\* sequences are as before, and the handler has returned (the request
\* occupies no slot, so no later step of it can create anything).
C3_MalformedKeyRejected ==
    [][\A r \in Reqs, month \in MonthInputs :
         (~WellFormedKey(month) /\ GetMonthBegin(r, month)) =>
             /\ resp'.op = "getMonth" /\ resp'.month = month
             /\ resp'.status = 400
             /\ req'[r] = Idle
             /\ store' = store
             /\ seqs' = seqs
      ]_vars

\* a malformed key was answered 400 on a store that holds months
C3_Witness ==
    /\ resp.op = "getMonth"
    /\ ~WellFormedKey(resp.month)
    /\ resp.status = 400
    /\ monthRows # {} /\ expenseRows # {}

\* C4: at most one MonthlyData row exists per month key, whatever the
\* interleaving of the requests.
C4_OneRowPerMonthKey ==
    \A a \in monthRows, b \in monthRows : a.month = b.month => a = b

\* a request lost the race for a month that another request created
C4_Witness ==
    /\ resp.op = "getMonth" /\ resp.thrown = "P2002"
    /\ \E m \in monthRows : m.month = resp.month

\* C5: when a GET that observed "not found" attempts the creation, it
\* succeeds if and only if no row for the month is there by then; if one is
\* there (another request created it in between) the attempt fails on the
\* unique index and leaves the tables as they were, with no category of its
\* own; either way exactly one row for the month exists afterwards.
C5_RaceHasOneWinner ==
    [][\A r \in Reqs :
         GetMonthCreate(r) =>
             /\ Cardinality({m \in monthRows' : m.month = req[r].month}) = 1
             /\ IF \E m \in monthRows : m.month = req[r].month
                THEN /\ resp'.status # 200
                     /\ resp'.thrown = "P2002"
                     /\ store' = store
                ELSE /\ resp'.status = 200
                     /\ Cardinality(monthRows') = Cardinality(monthRows) + 1
      ]_vars

\* the server has received two requests, both GETs of the same absent month,
\* and answered both: one created the month with its five categories, the
\* other, answered last, failed on the unique index
C5_Witness ==
    /\ issued = 2 /\ seqMonth = 2
    /\ \A r \in Reqs : req[r] = Idle
    /\ resp.op = "getMonth" /\ resp.thrown = "P2002" /\ resp.status # 200
    /\ Cardinality(monthRows) = 1
    /\ \E m \in monthRows : m.month = resp.month
    /\ Cardinality(expenseRows) = 5

\* C6: the request that loses the race on the unique index is answered
\* with a response that differs from the one given for a generic storage
\* failure (here: the database being unreachable, P1001).
C6_ConflictIsSurfaced ==
    (resp.op = "getMonth" /\ resp.thrown = "P2002") =>
        [status |-> resp.status, error |-> resp.error] # CatchGetMonth("P1001")

\* C7: DELETE /api/monthly/:month of a month that exists removes its row and
\* the income and expense rows it owns, and nothing else: the other months,
\* their rows, the savings goals and the users are as before.
C7_DeleteCascadesAndNothingElse ==
    [][\A r \in Reqs, month \in ValidMonthInputs :
         (DeleteMonth(r, month) /\ \E m \in monthRows : m.month = month) =>
             LET gone == {m \in monthRows : m.month = month}
                 ids == {m.id : m \in gone}
             IN /\ monthRows' = monthRows \ gone
                /\ incomeRows' = {i \in incomeRows : i.monthlyDataId \notin ids}
                /\ expenseRows' = {e \in expenseRows : e.monthlyDataId \notin ids}
                /\ goalRows' = goalRows
                /\ userRows' = userRows
                /\ resp'.op = "deleteMonth" /\ resp'.status = 200
      ]_vars

\* a month that owned an income source was deleted, and another month is
\* still there with its categories
C7_Witness ==
    /\ resp.op = "deleteMonth" /\ resp.status = 200
    /\ ~\E m \in monthRows : m.month = resp.month
    /\ seqIncome > 0 /\ incomeRows = {}
    /\ monthRows # {}
    /\ \E m \in monthRows : Cardinality(ExpensesOfId(m.id, expenseRows)) = 5
    /\ userRows = {SeedUser}

----------------------------------------------------------------------------
(* Properties of the aggregator, checked under SpecYearly *)

\* the month's key starts with the four characters of the year
InYear(m, year) == Len(m.month) >= 4 /\ \A i \in 1..4 : m.month[i] = year[i]

\* the sum of a field over a set of rows
RECURSIVE SetSum(_, _)
SetSum(rows, f) ==
    IF rows = {} THEN 0
    ELSE LET row == CHOOSE x \in rows : TRUE
         IN row[f] + SetSum(rows \ {row}, f)

\* all the income rows of the months of a year
IncomeOfYear(year) ==
    {i \in incomeRows : \E m \in monthRows : m.id = i.monthlyDataId /\ InYear(m, year)}

\* all the expense rows of the months of a year
ExpensesOfYear(year) ==
    {e \in expenseRows : \E m \in monthRows : m.id = e.monthlyDataId /\ InYear(m, year)}

\* C8: the summary's totals.effectiveIncome is the larger of the sum of all
\* expected income of the year's months and the sum of all their actual
\* income (C8_Witness: and not always the sum of the months' own effective
\* incomes).
C8_TotalEffectiveIncomeIsMaxOfSums ==
    report.status = 200 =>
        LET expected == SetSum(IncomeOfYear(report.year), "expected")
            actual == SetSum(IncomeOfYear(report.year), "actual")
        IN /\ report.totals.effectiveIncome >= expected
           /\ report.totals.effectiveIncome >= actual
           /\ report.totals.effectiveIncome \in {expected, actual}

\* a summary of two months whose total effective income is not the sum of
\* the two months' effective incomes
C8_Witness ==
    /\ report.status = 200
    /\ report.monthCount = 2
    /\ report.totals.effectiveIncome > 0
    /\ report.totals.effectiveIncome #
           SumOf(report.monthlyBreakdown, "effectiveIncome")

C10_SavingsRate ==
    report.status = 200 =>
        /\ report.savingsRate.den # 0
        /\ report.averages.monthlyIncome.den # 0
        /\ report.averages.monthlyExpenses.den # 0
        /\ report.averages.monthlySavings.den # 0
        /\ IF report.totals.effectiveIncome = 0
           THEN report.savingsRate.num = 0
           ELSE report.savingsRate.num * report.totals.effectiveIncome =
                    100 * report.totals.savings * report.savingsRate.den

\* what remains of C10 when no income amount of the year is negative: the
\* total effective income is then 0 or more and the rate is as claimed
SavingsRateOfNonNegativeIncome ==
    (/\ report.status = 200
     /\ \A i \in IncomeOfYear(report.year) : i.expected >= 0 /\ i.actual >= 0) =>
        /\ report.savingsRate.den # 0
        /\ IF report.totals.effectiveIncome = 0
           THEN report.savingsRate.num = 0
           ELSE report.savingsRate.num * report.totals.effectiveIncome =
                    100 * report.totals.savings * report.savingsRate.den

\* the months of a year that the store holds
MonthRowsOfYear(year) == {m \in monthRows : InYear(m, year)}

\* a month's savings: the larger of its expected and its actual income, less
\* what was spent
MonthSavings(m) ==
    LET expected == SetSum(IncomesOfId(m.id, incomeRows), "expected")
        actual == SetSum(IncomesOfId(m.id, incomeRows), "actual")
    IN (IF expected >= actual THEN expected ELSE actual)
           - SetSum(ExpensesOfId(m.id, expenseRows), "actual")

\* C11: bestMonth is null exactly when the year has no months; otherwise it
\* is the entry of a month of the year whose savings no month of the year
\* exceeds, and no earlier month of the year has the same savings.
C11_BestMonthIsEarliestMaximum ==
    report.status = 200 =>
        LET best == report.highlights.bestMonth
            months == MonthRowsOfYear(report.year)
        IN /\ (best = Null) <=> (months = {})
           /\ best # Null =>
                  \E m \in months :
                      /\ best.month = m.month
                      /\ best.savings = MonthSavings(m)
                      /\ \A o \in months :
                             /\ MonthSavings(o) <= MonthSavings(m)
                             /\ MonthSavings(o) = MonthSavings(m) =>
                                    ~StrLess(o.month, m.month)

\* a summary of two months with the same savings, the best being the first
C11_Witness ==
    /\ report.status = 200
    /\ report.monthCount = 2
    /\ report.monthlyBreakdown[1].savings = report.monthlyBreakdown[2].savings
    /\ report.monthlyBreakdown[1].savings # 0
    /\ report.highlights.bestMonth = report.monthlyBreakdown[1]

\* C12, as claimed: worstMonth is the entry of a month of the year whose
\* savings are the least of the year, and no earlier month of the year has
\* the same savings.  The code takes the last element of the stable
\* descending sort, which among the months that tie is the latest.
C12_WorstMonthIsEarliestMinimum ==
    (report.status = 200 /\ report.monthCount > 0) =>
        LET worst == report.highlights.worstMonth
        IN \E m \in MonthRowsOfYear(report.year) :
               /\ worst.month = m.month
               /\ worst.savings = MonthSavings(m)
               /\ \A o \in MonthRowsOfYear(report.year) :
                      /\ MonthSavings(o) >= MonthSavings(m)
                      /\ MonthSavings(o) = MonthSavings(m) =>
                             ~StrLess(o.month, m.month)

\* what the code does for C12: worstMonth has the least savings of the year
\* and is the latest of the months that have them
WorstMonthIsLatestMinimum ==
    (report.status = 200 /\ report.monthCount > 0) =>
        LET worst == report.highlights.worstMonth
        IN \E m \in MonthRowsOfYear(report.year) :
               /\ worst.month = m.month
               /\ worst.savings = MonthSavings(m)
               /\ \A o \in MonthRowsOfYear(report.year) :
                      /\ MonthSavings(o) >= MonthSavings(m)
                      /\ MonthSavings(o) = MonthSavings(m) =>
                             ~StrLess(m.month, o.month)

----------------------------------------------------------------------------
(* Properties of the category breakdown, checked under SpecCategories *)

\* the expense rows of a year that carry a name
ExpensesNamed(name, year) == {e \in ExpensesOfYear(year) : e.name = name}

\* categoryBreakdown has one entry for each of the names, with the sums of
\* the rows of that name and their difference, and no other entry; its
\* entries are in order of non-increasing actual; topSpendingCategory is its
\* first entry, or null
BreakdownCovers(names) ==
    LET cb == report.categoryBreakdown
    IN /\ \A n \in names :
              /\ Cardinality({i \in 1..Len(cb) : cb[i].name = n}) = 1
              /\ \A i \in 1..Len(cb) :
                     cb[i].name = n =>
                         /\ cb[i].budgeted =
                                SetSum(ExpensesNamed(n, report.year), "budgeted")
                         /\ cb[i].actual =
                                SetSum(ExpensesNamed(n, report.year), "actual")
                         /\ cb[i].variance = cb[i].budgeted - cb[i].actual
       /\ \A i \in 1..Len(cb) : cb[i].name \in names
       /\ \A i, j \in 1..Len(cb) : i < j => cb[i].actual >= cb[j].actual
       /\ report.highlights.topSpendingCategory =
              (IF names = {} THEN Null ELSE cb[1])

\* C13, as claimed: the breakdown covers every name that occurs on an
\* expense row of the year's months.  A name that an object literal inherits
\* from Object.prototype never becomes an entry of categoryTotals, so it is
\* missing from the breakdown.
C13_CategoryBreakdown ==
    report.status = 200 =>
        BreakdownCovers({e.name : e \in ExpensesOfYear(report.year)})

\* what the code does for C13: the breakdown covers the names that are not
\* inherited property names
CategoryBreakdownOfOwnNames ==
    report.status = 200 =>
        BreakdownCovers({e.name : e \in ExpensesOfYear(report.year)}
                            \ ObjectPrototypeKeys)

\* a breakdown of several names, one of them summed over three rows
CategoryBreakdownOfOwnNames_Witness ==
    /\ report.status = 200
    /\ Len(report.categoryBreakdown) = 2
    /\ \E i \in 1..2 : /\ report.categoryBreakdown[i].name = "Rent"
                       /\ report.categoryBreakdown[i].actual = 118 + 7 + 118

----------------------------------------------------------------------------
(* Properties of the gates, checked under SpecGate *)

\* the request that slot r would have taken from session s was answered 401
\* and has ended; the tables, their sequences, the last yearly report and
\* the session store are as they were
RejectedUnauthenticated(r, s) ==
    /\ resp'.status = 401
    /\ resp'.sid = s
    /\ req' = req
    /\ store' = store
    /\ seqs' = seqs
    /\ report' = report
    /\ sessions' = sessions

\* C14: a request to GET /api/monthly/:month, GET /api/savings, GET
\* /api/yearly/:year or POST /api/auth/change-credentials from a session
\* without a userId is answered 401, and no table changes: the ledger, the
\* savings goals and the users stay as they were, and nothing of the
\* request stays in flight that could change them later.
C14_UnauthenticatedIsRejected ==
    [][\A r \in Reqs, s \in Sids :
         sessions[s].userId = 0 =>
             /\ GatedGetMonth(r, s, M2025_01) => RejectedUnauthenticated(r, s)
             /\ GatedGetGoals(r, s) => RejectedUnauthenticated(r, s)
             /\ GatedGetYearly(r, s, Y2025) => RejectedUnauthenticated(r, s)
             /\ \A body \in GateChangeBodies :
                    ChangeBegin(r, s, body) =>
                        /\ resp'.status = 401
                        /\ resp'.sid = s
                        /\ req'[r] = Idle
                        /\ store' = store
                        /\ sessions' = sessions
      ]_vars

\* a session that had created a month has logged out, and its next read of
\* the month was answered 401
C14_Witness ==
    /\ resp.op = "getMonth" /\ resp.status = 401
    /\ sessions[resp.sid].userId = 0
    /\ monthRows # {}
    /\ issued = 3

----------------------------------------------------------------------------
(* Properties of sessions and credentials, checked under SpecAuth *)

\* the user rows of a name
UsersNamed(username) == {u \in userRows : u.username = username}

\* C15: a login naming a user that does not exist, and a login naming a user
\* that exists with a password that is not that user's, are both answered
\* with status 401 and the error body "Invalid credentials": nothing in the
\* response tells the two apart.
C15_LoginRejectionsAlike ==
    [][\A r \in Reqs :
         /\ \A s \in Sids, body \in LoginBodies :
                (LoginBegin(r, s, body) /\ UsersNamed(body.username) = {}) =>
                    /\ resp'.body = body
                    /\ <<resp'.status, resp'.error, resp'.username>> =
                           <<401, "Invalid credentials", "">>
         /\ (/\ LoginFinish(r)
             /\ req[r].user.password # <<"bcrypt", req[r].body.password.chars>>) =>
                    /\ resp'.body = req[r].body
                    /\ <<resp'.status, resp'.error, resp'.username>> =
                           <<401, "Invalid credentials", "">>
      ]_vars

\* a login of an unknown user has been rejected while a login of the seeded
\* user with a wrong password is at its password check
C15_Witness ==
    /\ resp.op = "login" /\ resp.status = 401
    /\ UsersNamed(resp.body.username) = {}
    /\ \E r \in Reqs :
           /\ req[r].op = "login" /\ req[r].pc = "compare"
           /\ req[r].body.password = JString(PwWrong)
           /\ UsersNamed(req[r].body.username) # {}

\* C16, as claimed: a logout leaves the session without a userId in the
\* store, and a session without a userId gets one only by a login on it
\* that succeeds.  GET /api/auth/me reports what the store holds.
C16_AuthenticatedOnlyFromLoginToLogout ==
    [][/\ \A s \in Sids :
              /\ Logout(s) => sessions'[s].userId = 0
              /\ Me(s) => resp'.authenticated = (sessions[s].userId # 0)
              /\ (sessions[s].userId = 0 /\ sessions'[s].userId # 0) =>
                     \E r \in Reqs :
                         /\ LoginFinish(r)
                         /\ req[r].sid = s
                         /\ resp'.status = 200
      ]_vars

\* what the code does for C16: a logout leaves the session without a userId,
\* GET /api/auth/me reports what the store holds, and a session without a
\* userId gets one by a login that succeeds or by the response of a
\* change-credentials request that arrived before the logout and changed
\* the username
SessionRevivedOnlyByLoginOrChange ==
    [][/\ \A s \in Sids :
              /\ Logout(s) => sessions'[s].userId = 0
              /\ Me(s) => resp'.authenticated = (sessions[s].userId # 0)
              /\ (sessions[s].userId = 0 /\ sessions'[s].userId # 0) =>
                     \E r \in Reqs :
                         /\ \/ LoginFinish(r)
                            \/ ChangeRespond(r) /\ "newUsername" \in DOMAIN req[r].body
                         /\ req[r].sid = s
                         /\ resp'.status = 200
      ]_vars

----------------------------------------------------------------------------
(* Properties of change-credentials, checked under SpecUsers *)

\* the row of the user a session names
UserOfSession(s) == {u \in userRows : u.id = sessions[s].userId}

\* a step of the change-credentials request in slot r
ChangeStep(r) ==
    \/ \E s \in Sids, body \in UsersChangeBodies : ChangeBegin(r, s, body)
    \/ ChangeFindName(r)
    \/ ChangeUpdate(r)
    \/ ChangeRespond(r)

\* C17: a change-credentials request whose currentPassword is not the
\* password stored for the session's user is answered 401 (400 when it asks
\* for no change at all, which is tested first) and ends there;
\* the step in which a change-credentials request is rejected, for whatever
\* reason, leaves every user row as it was; and the one step that writes
\* applies all the requested fields together, after which the request is
\* answered 200.
C17_RejectedChangeLeavesCredentials ==
    [][\A r \in Reqs :
         /\ \A s \in Sids, body \in UsersChangeBodies :
                (/\ ChangeBegin(r, s, body)
                 /\ \E u \in UserOfSession(s) :
                        u.password # <<"bcrypt", body.currentPassword.chars>>) =>
                    /\ req'[r] = Idle
                    /\ resp'.op = "changeCredentials"
                    /\ resp'.body = body /\ resp'.sid = s
                    /\ <<resp'.status, resp'.error>> =
                           IF DOMAIN body = {"currentPassword"}
                           THEN <<400, "New username or password required">>
                           ELSE <<401, "Current password is incorrect">>
         /\ (ChangeStep(r) /\ req'[r] = Idle /\ resp'.status # 200) =>
                userRows' = userRows
         /\ (ChangeStep(r) /\ userRows' # userRows) =>
                /\ req'[r].pc = "respond"
                /\ \E u \in userRows' \ userRows :
                       /\ u.id = req[r].session.userId
                       /\ "newUsername" \in DOMAIN req[r].body =>
                              u.username = req[r].body.newUsername
                       /\ "newPassword" \in DOMAIN req[r].body =>
                              u.password = <<"bcrypt", req[r].body.newPassword.chars>>
         /\ ChangeRespond(r) => resp'.status = 200
      ]_vars

\* a request is rejected for its current password, which was the user's
\* password until an earlier request changed it
C17_Witness ==
    /\ resp.op = "changeCredentials"
    /\ <<resp.status, resp.error>> = <<401, "Current password is incorrect">>
    /\ resp.body.currentPassword = JString(PwSeed)
    /\ \E u \in UserOfSession(resp.sid) :
           u.username = "alice" /\ u.password = Bcrypt(PwNewA)

\* the user rows other than that of request r's user which hold the name
\* the request asks for
OtherHolders(r) ==
    {u \in userRows : /\ u.username = req[r].body.newUsername
                      /\ u.id # req[r].session.userId}

\* request r asks for the name its user has
AsksOwnName(r) ==
    \E u \in userRows : /\ u.id = req[r].session.userId
                        /\ u.username = req[r].body.newUsername

\* C18: no two User rows ever have the same username, also when two users
\* ask for the same new name at the same time; a change-credentials request
\* for a name that another user holds is rejected (400 at the handler's own
\* check, 500 when the name was taken after that check) and changes no row;
\* a request for the name its user already has passes the check and the
\* update.
C18_UsernamesUnique ==
    /\ [](\A u \in userRows, v \in userRows : u.username = v.username => u = v)
    /\ [][\A r \in Reqs :
            /\ (ChangeFindName(r) /\ OtherHolders(r) # {}) =>
                   /\ req'[r] = Idle
                   /\ <<resp'.status, resp'.error>> = <<400, "Username already taken">>
                   /\ userRows' = userRows
            /\ (/\ ChangeUpdate(r)
                /\ "newUsername" \in DOMAIN req[r].body
                /\ OtherHolders(r) # {}) =>
                   /\ req'[r] = Idle
                   /\ resp'.status = 500
                   /\ userRows' = userRows
            /\ (ChangeFindName(r) /\ AsksOwnName(r)) =>
                   \/ req'[r].pc = "update"
                   \/ resp'.error = "Password must be at least 6 characters"
            /\ (ChangeUpdate(r) /\ AsksOwnName(r)) =>
                   /\ req'[r].pc = "respond"
                   /\ req'[r].user.username = req[r].body.newUsername
         ]_vars

\* two users asked for the name "alice" at the same time: one of them has
\* it, and the update of the other has failed on the unique index
C18_Witness ==
    /\ resp.op = "changeCredentials"
    /\ resp.status = 500 /\ resp.thrown = "P2002"
    /\ resp.body.newUsername = "alice"
    /\ \E u \in userRows : u.username = "alice" /\ u.id # sessions[resp.sid].userId
    /\ \E u \in userRows : u.username # "alice" /\ u.id = sessions[resp.sid].userId

----------------------------------------------------------------------------
(* Properties of the new password and of concurrent changes, checked under
   SpecAuth *)

\* the passwords whose hashes the User table holds for the user of request r
\* after a step
StoredPasswordsAfter(r) ==
    {u.password[2] : u \in {v \in userRows' : v.id = req[r].session.userId}}

\* the update of request r succeeds in this step
UpdateSucceeds(r) == ChangeUpdate(r) /\ req'[r].pc = "respond"

\* the handler's username check lets a request with a short new password
\* through to the length check, which answers 400
ShortPasswordRejected(r) ==
    (/\ ChangeFindName(r)
     /\ "newPassword" \in DOMAIN req[r].body
     /\ req[r].body.newPassword.type = "string"
     /\ Len(req[r].body.newPassword.chars) < 6) =>
        /\ req'[r] = Idle
        /\ <<resp'.status, resp'.error>> =
               <<400, "Password must be at least 6 characters">>
        /\ userRows' = userRows

\* C19, as claimed: when the update of a change-credentials request that
\* supplies newPassword succeeds, whatever JSON value newPassword is, the
\* password stored for the user is the hash of a string of at least 6
\* characters; and a request whose newPassword is a string of fewer than 6
\* characters is answered 400.
C19_StoredPasswordHasSixCharacters ==
    [][\A r \in Reqs :
         /\ (UpdateSucceeds(r) /\ "newPassword" \in DOMAIN req[r].body) =>
                \A p \in StoredPasswordsAfter(r) : Len(p) >= 6
         /\ ShortPasswordRejected(r)
      ]_vars

\* what the code does for C19: the claim's statement holds of every
\* newPassword that is a JSON string
StringPasswordHasSixCharacters ==
    [][\A r \in Reqs :
         /\ (/\ UpdateSucceeds(r)
             /\ "newPassword" \in DOMAIN req[r].body
             /\ req[r].body.newPassword.type = "string") =>
                /\ StoredPasswordsAfter(r) = {req[r].body.newPassword.chars}
                /\ Len(req[r].body.newPassword.chars) >= 6
         /\ ShortPasswordRejected(r)
      ]_vars

\* a new password of six characters has been stored and the request answered
StringPasswordHasSixCharacters_Witness ==
    /\ resp.op = "changeCredentials" /\ resp.status = 200
    /\ resp.body.newPassword = JString(PwNewA)
    /\ \E u \in userRows : u.password = Bcrypt(PwNewA)

\* C20: change-credentials requests of one session that run concurrently are
\* each checked against the row they read; the update of each succeeds
\* whatever has been written since that read, and sets exactly the fields
\* the request asked for, so that each field ends with the value of the
\* update that committed last; each is then answered 200.
C20_LastWriteWins ==
    [][\A r \in Reqs :
         /\ ChangeUpdate(r) =>
                /\ req'[r].pc = "respond"
                /\ \E before \in userRows, after \in userRows' :
                       /\ before.id = req[r].session.userId
                       /\ after.id = before.id
                       /\ after.username =
                              IF "newUsername" \in DOMAIN req[r].body
                              THEN req[r].body.newUsername ELSE before.username
                       /\ after.password =
                              IF "newPassword" \in DOMAIN req[r].body
                              THEN <<"bcrypt", StringOf(req[r].body.newPassword)>>
                              ELSE before.password
                       /\ userRows' = (userRows \ {before}) \cup {after}
         /\ ChangeRespond(r) =>
                /\ resp'.status = 200
                /\ resp'.username = req[r].user.username
      ]_vars

\* the request for a new name and password and the request for another new
\* password both passed the check on the seeded row; the second of them to
\* commit was the one for the password alone, and it has been answered 200:
\* the name is the first request's, the password the second's
C20_Witness ==
    /\ resp.op = "changeCredentials" /\ resp.status = 200
    /\ resp.body = [currentPassword |-> JString(PwSeed), newPassword |-> JString(PwNewB)]
    /\ userRows = {[id |-> 1, username |-> "alice", password |-> Bcrypt(PwNewB)]}

----------------------------------------------------------------------------
(* Properties of the rows, checked under SpecRows *)

\* C21, as claimed: every amount the store holds (expected and actual of an
\* income row, budgeted and actual of an expense row, targetAmount and
\* currentAmount of a savings goal) is at least zero, whatever numbers the
\* create and PATCH requests carried.
C21_AmountsNonNegative ==
    /\ \A i \in incomeRows : i.expected >= 0 /\ i.actual >= 0
    /\ \A e \in expenseRows : e.budgeted >= 0 /\ e.actual >= 0
    /\ \A g \in goalRows : g.targetAmount >= 0 /\ g.currentAmount >= 0

\* the rows after a PATCH of the row id with body: that row has the body's
\* fields from the body and every other field as before, every other row is
\* as before
PatchedOnly(before, after, id, body) ==
    /\ {row.id : row \in after} = {row.id : row \in before}
    /\ \A old \in before : \E new \in after :
           /\ new.id = old.id
           /\ DOMAIN new = DOMAIN old
           /\ old.id # id => new = old
           /\ old.id = id =>
                  \A f \in DOMAIN old :
                      new[f] = IF f \in DOMAIN body THEN body[f] ELSE old[f]

MonthAbsent(month) == ~\E m \in monthRows : m.month = month

\* no row of the table has the id
IdAbsent(rows, id) == ~\E row \in rows : row.id = id

\* the request of slot r has been answered with an error in status, and no
\* table and no sequence has changed
RefusedWith(r, status) ==
    /\ req'[r] = Idle
    /\ resp'.status \in status
    /\ resp'.error # ""
    /\ UNCHANGED <<store, seqs>>

\* C23: a request that names a month or a row that does not exist is
\* answered with an error, 404 by the handlers that look the month up (the
\* POST of an income or expense row) and 500 by the others (DELETE of a
\* month, PATCH and DELETE of a row by id), and no table changes: posting a
\* row to an absent month does not create the month.
C23_MissingTargetChangesNothing ==
    [][\A r \in Reqs :
         /\ \A month \in RowsMonthInputs :
                /\ (DeleteMonth(r, month) /\ MonthAbsent(month)) => RefusedWith(r, {500})
                /\ \A body \in RowsIncomeBodies :
                       (PostIncomeBegin(r, month, body) /\ MonthAbsent(month)) =>
                           RefusedWith(r, {404})
                /\ \A body \in RowsExpenseBodies :
                       (PostExpenseBegin(r, month, body) /\ MonthAbsent(month)) =>
                           RefusedWith(r, {404})
         /\ \A id \in RowsIdInputs :
                /\ (DeleteIncome(r, id) /\ IdAbsent(incomeRows, id)) =>
                       RefusedWith(r, {500})
                /\ (DeleteExpense(r, id) /\ IdAbsent(expenseRows, id)) =>
                       RefusedWith(r, {500})
                /\ (DeleteGoal(r, id) /\ IdAbsent(goalRows, id)) =>
                       RefusedWith(r, {500})
                /\ \A body \in RowsIncomePatches :
                       (PatchIncome(r, id, body) /\ IdAbsent(incomeRows, id)) =>
                           RefusedWith(r, {500})
                /\ \A body \in RowsExpensePatches :
                       (PatchExpense(r, id, body) /\ IdAbsent(expenseRows, id)) =>
                           RefusedWith(r, {500})
                /\ \A body \in RowsGoalPatches :
                       (PatchGoal(r, id, body) /\ IdAbsent(goalRows, id)) =>
                           RefusedWith(r, {500})
      ]_vars

\* an income row was posted to 2025-02, which has never been read: the
\* answer is 404 and 2025-02 is still absent, next to 2025-01
C23_Witness ==
    /\ resp.op = "postIncome" /\ resp.status = 404
    /\ MonthAbsent(M2025_02)
    /\ ~MonthAbsent(M2025_01)

----------------------------------------------------------------------------
(* Properties of the application's own routes, checked under               *)
(* SpecProduction and SpecDevelopment                                      *)

\* C24, as claimed: every request is answered in the end, GET /api/health
\* and the requests for paths under /api that no route has among them, also
\* when NODE_ENV is production.
C24_EveryRequestIsAnswered ==
    \A r \in Reqs : (req[r].op = "route") ~> (req[r].op = "idle")

\* what the code does for C24: in production every request but a GET of a
\* path under /api is answered
AnsweredUnlessGetUnderApi ==
    \A r \in Reqs :
        (/\ req[r].op = "route"
         /\ ~(req[r].body.method = "GET" /\ StartsWithApi(req[r].body.path)))
            ~> (req[r].op = "idle")

\* in production a GET of a path under /api that no router answers stays
\* open for ever
GetUnderApiStaysOpen ==
    [][\A r \in Reqs : req[r].pc = "open" =>
           /\ req'[r] = req[r]
           /\ req[r].body.method = "GET" /\ StartsWithApi(req[r].body.path)]_vars

----------------------------------------------------------------------------
(* Properties of the seed, checked under SpecSeed *)

\* the login of slot r is answered 200 in this step and its session holds
\* the user
LoginSucceeds(r) ==
    /\ LoginFinish(r)
    /\ resp'.status = 200
    /\ sessions'[req[r].sid].userId # 0

\* C25, as claimed: once the seed has run on the empty User table, a login
\* with the username admin and the password admin passes the lookup of the
\* user and succeeds.
C25_DocumentedCredentialsLogIn ==
    [][\A r \in Reqs, s \in Sids :
         /\ (/\ LoginBegin(r, s, [username |-> "admin", password |-> JString(PwAdmin)])
             /\ userRows # {}) =>
                req'[r].pc = "compare"
         /\ (LoginFinish(r) /\ req[r].body.username = "admin") => LoginSucceeds(r)
      ]_vars

\* what the code does for C25: once the seed has run, the login that
\* succeeds is the one with the username spemily and the password
\* babygirl123, and the one with admin and admin is answered 401
SeedCredentialsLogIn ==
    [][\A r \in Reqs, s \in Sids :
         /\ (/\ LoginBegin(r, s, [username |-> "admin", password |-> JString(PwAdmin)])
             /\ userRows # {}) =>
                /\ req'[r] = Idle
                /\ <<resp'.status, resp'.error>> = <<401, "Invalid credentials">>
         /\ (/\ LoginBegin(r, s, [username |-> "spemily", password |-> JString(PwSeed)])
             /\ userRows # {}) =>
                req'[r].pc = "compare"
         /\ LoginFinish(r) => (req[r].body.username = "spemily" /\ LoginSucceeds(r))
      ]_vars

\* after the seed, the login with spemily and babygirl123 has succeeded
SeedCredentialsLogIn_Witness ==
    /\ resp.op = "login" /\ resp.status = 200
    /\ resp.body = [username |-> "spemily", password |-> JString(PwSeed)]
    /\ sessions[resp.sid] = [userId |-> 1, username |-> "spemily"]

----------------------------------------------------------------------------
(* Properties of re-created months, checked under SpecRecreate *)

\* the categories a month created now would be given: those of the nearest
\* earlier month, reset, or the five defaults when there is no earlier month
\* or the nearest has no category
DerivedNow(month, cats) ==
    LET near == NearestEarlier(month)
        src == IF near = {} THEN <<>>
               ELSE ById(ExpensesOfId((CHOOSE p \in near : TRUE).id, expenseRows))
    IN IF Len(src) > 0
       THEN /\ Len(cats) = Len(src)
            /\ \A i \in 1..Len(src) :
                   cats[i] = [name |-> src[i].name, budgeted |-> src[i].budgeted,
                              actual |-> 0, isPaid |-> FALSE,
                              showPaidStatus |-> src[i].showPaidStatus]
       ELSE /\ Len(cats) = 5
            /\ {cats[i] : i \in 1..5} = FiveDefaults

\* the month created in this step and its categories have ids that no row
\* had before, and nothing is spent or paid in it
CreatedFresh(r) ==
    \A m \in monthRows' \ monthRows :
        /\ m.id > seqMonth
        /\ \A e \in ExpensesOfId(m.id, expenseRows') :
               e.id > seqExpense /\ e.actual = 0 /\ ~e.isPaid

\* C26: a GET of a month that has been deleted finds it absent and creates
\* it anew: the categories are derived from the month that is then the
\* nearest earlier one (or are the defaults), there is no income row, every
\* actual is 0 and every isPaid false, the month and its categories have new
\* ids, and once the create has run the month exists.
C26_DeletedMonthIsCreatedAnew ==
    [][\A r \in Reqs :
         /\ \A month \in RecreateMonthInputs :
                (GetMonthBegin(r, month) /\ MonthAbsent(month)) =>
                    /\ req'[r].pc = "findFirst"
                    /\ UNCHANGED <<store, seqs>>
         /\ GetMonthFindFirst(r) => DerivedNow(req[r].month, req'[r].cats)
         /\ (GetMonthCreate(r) /\ resp'.status = 200) =>
                CreatedAsPrepared(r) /\ CreatedFresh(r)
         /\ GetMonthCreate(r) => \E m \in monthRows' : m.month = req[r].month
      ]_vars

\* 2025-02 was deleted and read again: it exists under a new id, with
\* nothing spent or paid and no income row, and the budgets that the deleted
\* 2025-02 had are nowhere in the store
C26_Witness ==
    \E m \in monthRows :
        /\ m.month = M2025_02 /\ m.id > 3
        /\ resp.op = "getMonth" /\ resp.status = 200 /\ resp.month = M2025_02
        /\ ExpensesOfId(m.id, expenseRows) # {}
        /\ \A e \in ExpensesOfId(m.id, expenseRows) : e.actual = 0 /\ ~e.isPaid
        /\ IncomesOfId(m.id, incomeRows) = {}
        /\ incomeRows = {}
        /\ \A e \in expenseRows : e.budgeted \notin {130000, 45000}

\* the nearest earlier month of a key exists and has no category, while a
\* month before it has some
NearestIsEmptyOlderIsNot(month) ==
    \E p \in NearestEarlier(month), o \in monthRows :
        /\ ExpensesOfId(p.id, expenseRows) = {}
        /\ StrLess(o.month, p.month)
        /\ ExpensesOfId(o.id, expenseRows) # {}

\* C28: when the nearest earlier month of the month being created exists
\* and has no expense category, the request prepares the five defaults, and
\* the month it creates holds exactly these, also when a month further back
\* has categories: only the nearest earlier month is looked at.
C28_EmptyNearestMonthGivesDefaults ==
    [][\A r \in Reqs :
         /\ (/\ GetMonthFindFirst(r)
             /\ \E p \in NearestEarlier(req[r].month) :
                    ExpensesOfId(p.id, expenseRows) = {}) =>
                /\ Len(req'[r].cats) = 5
                /\ {req'[r].cats[i] : i \in 1..5} = FiveDefaults
         /\ (/\ GetMonthCreate(r) /\ resp'.status = 200
             /\ NearestIsEmptyOlderIsNot(req[r].month)
             /\ {req[r].cats[i] : i \in 1..Len(req[r].cats)} = FiveDefaults) =>
                \E m \in monthRows' \ monthRows :
                    /\ m.month = req[r].month
                    /\ Cardinality(ExpensesOfId(m.id, expenseRows')) = 5
                    /\ {Shape(e) : e \in ExpensesOfId(m.id, expenseRows')} = FiveDefaults
      ]_vars

\* 2025-02 has been created again while 2025-01 was there without a
\* category and 2024-12 with its budgeted Rent: 2025-02 has the five
\* defaults
C28_Witness ==
    \E m \in monthRows :
        /\ m.month = M2025_02 /\ m.id > 3
        /\ resp.op = "getMonth" /\ resp.status = 200 /\ resp.month = M2025_02
        /\ NearestIsEmptyOlderIsNot(M2025_02)
        /\ [id |-> 2, month |-> M2025_01] \in monthRows
        /\ Cardinality(ExpensesOfId(m.id, expenseRows)) = 5
        /\ {Shape(e) : e \in ExpensesOfId(m.id, expenseRows)} = FiveDefaults

----------------------------------------------------------------------------
(* Properties of the foreign keys, checked under SpecRows *)

\* C27: every income row and every expense row belongs to a month row that
\* exists, in every state, also when a month is deleted while a POST of an
\* income or expense row to it is between its lookup of the month and its
\* insert.
C27_NoOrphanRows ==
    /\ \A i \in incomeRows : \E m \in monthRows : m.id = i.monthlyDataId
    /\ \A e \in expenseRows : \E m \in monthRows : m.id = e.monthlyDataId

\* a POST of an income row looked its month up, the month was deleted, and
\* the insert has been refused by the foreign key; the month is gone with
\* its rows
C27_Witness ==
    /\ resp.op = "postIncome" /\ resp.status = 500 /\ resp.thrown = "P2003"
    /\ monthRows = {}
    /\ incomeRows = {} /\ expenseRows = {}
    /\ seqIncome = 2

----------------------------------------------------------------------------
(* Properties of the session's username, checked under SpecAuth *)

\* no request is in flight
Quiet == \A r \in Reqs : req[r].pc = "idle"

\* C29, as claimed: whenever no request is in flight, every session that
\* holds a userId holds the username stored for that user, whichever
\* session of the user made the logins and the changes of credentials.
C29_SessionUsernameIsStored ==
    Quiet =>
        \A s \in Sids :
            sessions[s].userId # 0 =>
                \E u \in userRows : /\ u.id = sessions[s].userId
                                    /\ u.username = sessions[s].username

\* what the code does for C29: the response of a change of username puts
\* the stored username into the session of the request, and into no other
\* session
ChangeRenamesOwnSessionOnly ==
    [][\A r \in Reqs :
         (ChangeRespond(r) /\ "newUsername" \in DOMAIN req[r].body) =>
             /\ sessions'[req[r].sid].username = req[r].body.newUsername
             /\ \A s \in Sids \ {req[r].sid} : sessions'[s] = sessions[s]
      ]_vars

----------------------------------------------------------------------------
(* Properties of the reads, checked under SpecReads *)

\* no table, no sequence and no session changes
WritesNothing == UNCHANGED <<store, seqs, sessions>>

\* C30: the GETs write nothing: the list of months, a month that exists, a
\* month key that is malformed, the list of years, a year with or without
\* data, the goals, one goal, and /api/auth/me leave every table, sequence
\* and session as it was.  The GET of an absent month with a valid key is
\* the one that writes: its create adds that month and its categories and
\* changes no row that was there, so the month it cloned from is as before.
C30_ReadsWriteNothing ==
    [][\A r \in Reqs :
         /\ GetMonths(r) => WritesNothing
         /\ GetYears(r) => WritesNothing
         /\ GetGoals(r) => WritesNothing
         /\ \A id \in RowsIdInputs : GetGoal(r, id) => WritesNothing
         /\ \A year \in YearInputs : GetYearly(year) => WritesNothing
         /\ \A s \in Sids : Me(s) => WritesNothing
         /\ \A month \in {M2025_01, M2025_02, MShort} :
                GetMonthBegin(r, month) =>
                    /\ WritesNothing
                    /\ (~MonthAbsent(month) \/ ~WellFormedKey(month)) => req'[r] = Idle
         /\ GetMonthFindFirst(r) => WritesNothing
         /\ GetMonthCreate(r) =>
                /\ UNCHANGED <<incomeRows, goalRows, userRows, sessions>>
                /\ monthRows \subseteq monthRows'
                /\ expenseRows \subseteq expenseRows'
                /\ \A m \in monthRows' \ monthRows :
                       /\ monthRows' = monthRows \cup {m}
                       /\ m.month = req[r].month
                       /\ MonthAbsent(m.month)
                       /\ expenseRows' \ expenseRows = ExpensesOfId(m.id, expenseRows')
                /\ monthRows' = monthRows => expenseRows' = expenseRows
      ]_vars

\* 2025-02 was read for the first time and created from 2025-01, whose
\* rows are as they were; the year 2025 has been summed up since
C30_Witness ==
    /\ resp.op = "getMonth" /\ resp.status = 200 /\ resp.month = M2025_02
    /\ \E m \in monthRows : m.month = M2025_02 /\ m.id = 2
    /\ [id |-> 1, name |-> "Rent", budgeted |-> 120000, actual |-> 118000,
        isPaid |-> TRUE, showPaidStatus |-> TRUE, monthlyDataId |-> 1] \in expenseRows
    /\ Cardinality(ExpensesOfId(1, expenseRows)) = 5
    /\ Cardinality(ExpensesOfId(2, expenseRows)) = 5
    /\ Cardinality(incomeRows) = 1
    /\ report.status = 200 /\ report.year = Y2025 /\ report.monthCount = 2

====
